---------------------------- MODULE Spec2Model ----------------------------
(***************************************************************************)
(* PitWall: tyre-degradation based pit-strategy simulator.                 *)
(*                                                                         *)
(* Units.  Every time (lap times, offsets, rates, pit loss) is an integer  *)
(* number of 10-microsecond ticks (1 s = 100000 ticks), so that the        *)
(* 4- and 5-decimal rates of the source are exact.  round(x, 3) of the     *)
(* source is rounding to the nearest multiple of 100 ticks.                *)
(* rain_intensity is an integer percentage (0..100).                       *)
(* Percentages of the historical analyser are kept in tenths of a percent, *)
(* lap statistics in quarters of a lap before rounding and in tenths of a  *)
(* lap after rounding.                                                     *)
(***************************************************************************)
EXTENDS Integers, Sequences, FiniteSets, TLC

VARIABLES
    pc,            \* position of the call under study: "ready" or the name of the call made
    stint_args,    \* arguments of a _stint_time call
    stint_out,     \* its return value (total, avg, final, cliff_laps)
    req,           \* SimulateRequest
    strategies,    \* list[StrategyResult] returned by the strategy builders
    response,      \* SimulateResponse returned by simulate_strategy
    sessions_data, \* list of races, each a list of per-driver stint lists
    notes,         \* shared diagnostics list of the historical analyser
    hist_out,      \* return value of a historical sub-computation
    degradation,   \* compound table handed to apply_temp_adjustment
    track_temp_c,  \* track temperature handed to apply_temp_adjustment
    adjusted,      \* table returned by apply_temp_adjustment
    score_strats,  \* StrategyResult objects of the list handed to the scorer, by identity
    profile,       \* CircuitHistoricalProfile handed to the scorer
    compound_to_role, \* optional mapping of C-codes to roles
    score_out,     \* return value of a scoring call
    loaded_stints, \* stints handed to compute_degradation
    objects,       \* the per-code entry dicts created so far, by identity
    tables,        \* the compound tables created so far: code -> entry identity
    circuit_info,  \* circuit_info handed to compute_historical_profile
    fastf1_sessions, \* what FastF1 yields for each requested year, in order
    cache_file,     \* the file degradation_<md5>.json of the circuit: whether it exists, and its text
    deg_requests,   \* the get_degradation requests made so far, in order
    deg_response,   \* what the last get_degradation request returned
    cache_pc,       \* position of the thread in read_cache and of the thread in write_cache
    read_out,       \* return value of read_cache
    write_data      \* the dict handed to write_cache

vars == <<pc, stint_args, stint_out, req, strategies, response, sessions_data, notes,
          hist_out, degradation, track_temp_c, adjusted,
          score_strats, profile, compound_to_role, score_out,
          loaded_stints, objects, tables,
          circuit_info, fastf1_sessions,
          cache_file, deg_requests, deg_response, cache_pc, read_out, write_data>>

stint_vars == <<stint_args, stint_out>>
sim_vars   == <<req, strategies, response>>
hist_vars  == <<sessions_data, notes, hist_out>>
temp_vars  == <<degradation, track_temp_c, adjusted>>
score_vars == <<score_strats, profile, compound_to_role, score_out>>
deg_vars   == <<loaded_stints, objects, tables>>
circuit_vars == <<circuit_info, fastf1_sessions>>
cache_vars == <<cache_file, deg_requests, deg_response, cache_pc, read_out, write_data>>

-----------------------------------------------------------------------------
(* Generic helpers                                                         *)

Min(a, b) == IF a < b THEN a ELSE b
Max(a, b) == IF a > b THEN a ELSE b
Abs(a) == IF a < 0 THEN -a ELSE a

\* Floor of num/den for den > 0 (Python int() of a non-negative quotient,
\* and // of the source).
FloorDiv(num, den) == num \div den

\* Python round(): nearest integer to num/den (den > 0), ties to even.
RoundDiv(num, den) ==
    LET q == num \div den
        r == num % den
    IN  IF 2 * r < den THEN q
        ELSE IF 2 * r > den THEN q + 1
        ELSE IF q % 2 = 0 THEN q ELSE q + 1

\* round(x, 3) on a time in ticks: nearest multiple of 100 ticks.
Round3(x) == 100 * RoundDiv(x, 100)

\* dict.get(key, default)
Get(data, key, default) == IF key \in DOMAIN data THEN data[key] ELSE default

RECURSIVE SumSeq(_)
SumSeq(s) == IF s = <<>> THEN 0 ELSE Head(s) + SumSeq(Tail(s))

-----------------------------------------------------------------------------
(* Lap / stint time model: routers/simulate.py                             *)

\* Single lap time for lap n (0-indexed) in a stint.
_lap_time(n, base_lap, pace_offset, deg_rate, cliff_onset, cliff_rate) ==
    LET t == base_lap + pace_offset + n * deg_rate
    IN  IF n > cliff_onset
        THEN t + cliff_rate * (n - cliff_onset) * (n - cliff_onset)
        ELSE t

\* The for-loop of _stint_time over range(cliff_count), from iteration i on.
RECURSIVE cliff_loop(_, _, _, _, _, _, _)
cliff_loop(i, cliff_count, base_lap, pace_offset, deg_rate, cliff_onset, cliff_rate) ==
    IF i >= cliff_count THEN 0
    ELSE LET n == cliff_onset + 1 + i
         IN  (base_lap + pace_offset) + n * deg_rate
               + cliff_rate * (n - cliff_onset) * (n - cliff_onset)
               + cliff_loop(i + 1, cliff_count, base_lap, pace_offset, deg_rate,
                            cliff_onset, cliff_rate)

\* Plausible slips of _stint_time, used to show that the properties below
\* depend on it: an off-by-one linear region, and a cliff term of the wrong sign.
_stint_time_short_linear(laps, base_lap, pace_offset, deg_rate, cliff_onset, cliff_rate) ==
    IF laps <= 0 THEN [total |-> 0, avg |-> 0, final |-> 0, cliff_laps |-> 0]
    ELSE
    LET linear_laps == Min(laps, cliff_onset)
        linear_total == linear_laps * (base_lap + pace_offset)
                          + (deg_rate * linear_laps * (linear_laps - 1)) \div 2
        cliff_count == IF laps > cliff_onset + 1 THEN laps - (cliff_onset + 1) ELSE 0
        total == linear_total + cliff_loop(0, cliff_count, base_lap, pace_offset,
                                           deg_rate, cliff_onset, cliff_rate)
    IN  [total |-> total, avg |-> total \div laps,
         final |-> _lap_time(laps - 1, base_lap, pace_offset, deg_rate, cliff_onset, cliff_rate),
         cliff_laps |-> cliff_count]

_stint_time_neg_rates(laps, base_lap, pace_offset, deg_rate, cliff_onset, cliff_rate) ==
    IF laps <= 0 THEN [total |-> 0, avg |-> 0, final |-> 0, cliff_laps |-> 0]
    ELSE
    LET linear_laps == Min(laps, cliff_onset + 1)
        linear_total == linear_laps * (base_lap + pace_offset)
                          - (deg_rate * linear_laps * (linear_laps - 1)) \div 2
        cliff_count == IF laps > cliff_onset + 1 THEN laps - (cliff_onset + 1) ELSE 0
        total == linear_total + cliff_loop(0, cliff_count, base_lap, pace_offset,
                                           deg_rate, cliff_onset, 0 - cliff_rate)
    IN  [total |-> total, avg |-> total \div laps,
         final |-> _lap_time(laps - 1, base_lap, pace_offset, deg_rate, cliff_onset, cliff_rate),
         cliff_laps |-> cliff_count]

\* (total, avg, final, cliff_laps) for a stint.  avg is kept to the tick.
_stint_time(laps, base_lap, pace_offset, deg_rate, cliff_onset, cliff_rate) ==
    IF laps <= 0 THEN [total |-> 0, avg |-> 0, final |-> 0, cliff_laps |-> 0]
    ELSE
    LET linear_laps == Min(laps, cliff_onset + 1)
        linear_total == linear_laps * (base_lap + pace_offset)
                          + (deg_rate * linear_laps * (linear_laps - 1)) \div 2
        cliff_count == IF laps > cliff_onset + 1 THEN laps - (cliff_onset + 1) ELSE 0
        total == linear_total + cliff_loop(0, cliff_count, base_lap, pace_offset,
                                           deg_rate, cliff_onset, cliff_rate)
    IN  [total |-> total, avg |-> total \div laps,
         final |-> _lap_time(laps - 1, base_lap, pace_offset, deg_rate, cliff_onset, cliff_rate),
         cliff_laps |-> cliff_count]

-----------------------------------------------------------------------------
(* Idle values of the parts a specification does not exercise              *)

NoStint == [total |-> 0, avg |-> 0, final |-> 0, cliff_laps |-> 0]
NoArgs  == [laps |-> 0, base_lap |-> 0, pace_offset |-> 0, deg_rate |-> 0,
            cliff_onset |-> 0, cliff_rate |-> 0]

StintIdle == stint_args = NoArgs /\ stint_out = NoStint
SimIdle   == req = <<>> /\ strategies = <<>> /\ response = <<>>
HistIdle  == sessions_data = <<>> /\ notes = <<>> /\ hist_out = <<>>
TempIdle  == degradation = <<>> /\ track_temp_c = 0 /\ adjusted = <<>>
ScoreIdle == score_strats = <<>> /\ profile = <<>> /\ compound_to_role = <<>> /\ score_out = <<>>
DegIdle   == loaded_stints = <<>> /\ objects = <<>> /\ tables = <<>>
CircuitIdle == circuit_info = <<>> /\ fastf1_sessions = <<>>
CacheIdle == cache_file = [exists |-> FALSE] /\ deg_requests = <<>> /\ deg_response = <<>> /\ cache_pc = <<>> /\ read_out = <<>> /\ write_data = <<>>

-----------------------------------------------------------------------------
(* Specification of the stint time model                                   *)

MaxStintLaps == 8

StintLapsSet    == -1 .. MaxStintLaps
BaseLapSet      == {9000000, 9540000}          \* 90 s, 95.4 s
PaceOffsetSet   == {0, 130000}                 \* 0 s, 1.3 s
DegRateSet      == {0, 4500, 9500}             \* 0, 0.045, 0.095 s/lap
CliffOnsetSet   == {0, 2, 5, 7, 20}
CliffRateSet    == {0, 1500, 10000}            \* 0, 0.015, 0.10 s/lap^2

StintInit ==
    /\ pc = "ready"
    /\ stint_args \in [laps : StintLapsSet, base_lap : BaseLapSet,
                       pace_offset : PaceOffsetSet, deg_rate : DegRateSet,
                       cliff_onset : CliffOnsetSet, cliff_rate : CliffRateSet]
    /\ stint_out = NoStint
    /\ SimIdle /\ HistIdle /\ TempIdle /\ ScoreIdle /\ DegIdle /\ CircuitIdle /\ CacheIdle

StintTimeOf(a) ==
    _stint_time(a.laps, a.base_lap, a.pace_offset, a.deg_rate, a.cliff_onset, a.cliff_rate)

CallStintTime ==
    /\ pc = "ready"
    /\ stint_out' = StintTimeOf(stint_args)
    /\ pc' = "stint_time"
    /\ UNCHANGED <<stint_args, sim_vars, hist_vars, temp_vars, score_vars, deg_vars, circuit_vars, cache_vars>>

StintNext == CallStintTime

SpecStint == StintInit /\ [][StintNext]_vars


(* C8: for any stint length L >= 1 and cliff_onset >= L - 1 (cliff_onset    *)
(* >= 0), _stint_time returns total = L*(base_lap + pace_offset) +         *)
(* deg_rate*L*(L-1)/2 with cliff_laps = 0, whatever the cliff_rate; for    *)
(* laps <= 0 it returns (0, 0, 0, 0).                                      *)
C8_LinearClosedForm ==
    pc = "stint_time" =>
        LET a == stint_args
            L == a.laps
        IN  /\ (L >= 1 /\ a.cliff_onset >= L - 1 /\ a.cliff_onset >= 0) =>
                  /\ stint_out.total = L * (a.base_lap + a.pace_offset)
                                         + (a.deg_rate * L * (L - 1)) \div 2
                  /\ stint_out.cliff_laps = 0
                  /\ \A cr \in CliffRateSet :
                        _stint_time(L, a.base_lap, a.pace_offset, a.deg_rate,
                                    a.cliff_onset, cr).total = stint_out.total
            /\ (L <= 0) =>
                  stint_out = [total |-> 0, avg |-> 0, final |-> 0, cliff_laps |-> 0]

\* A stint that ends exactly on the last linear lap, with non-zero rates.
C8_Witness ==
    /\ pc = "stint_time"
    /\ stint_args.laps >= 2
    /\ stint_args.cliff_onset = stint_args.laps - 1
    /\ stint_args.deg_rate > 0
    /\ stint_args.cliff_rate > 0
    /\ stint_out.total > stint_args.laps * (stint_args.base_lap + stint_args.pace_offset)

(* C9: for a fixed lap count, base lap, pace offset and cliff_onset >= 0,  *)
(* the total of _stint_time is non-decreasing in deg_rate (cliff_rate      *)
(* fixed) and non-decreasing in cliff_rate (deg_rate fixed), for           *)
(* non-negative rates.                                                     *)
C9_MonotoneInRates ==
    pc = "stint_time" =>
        LET a == stint_args
        IN  /\ \A d \in DegRateSet :
                  d >= a.deg_rate =>
                      _stint_time(a.laps, a.base_lap, a.pace_offset, d,
                                  a.cliff_onset, a.cliff_rate).total >= stint_out.total
            /\ \A c \in CliffRateSet :
                  c >= a.cliff_rate =>
                      _stint_time(a.laps, a.base_lap, a.pace_offset, a.deg_rate,
                                  a.cliff_onset, c).total >= stint_out.total

\* A stint that runs past the cliff, for which larger rates of both kinds exist.
C9_Witness ==
    /\ pc = "stint_time"
    /\ stint_out.cliff_laps >= 2
    /\ stint_args.deg_rate = 4500
    /\ stint_args.cliff_rate = 1500
    /\ _stint_time(stint_args.laps, stint_args.base_lap, stint_args.pace_offset, 9500,
                   stint_args.cliff_onset, stint_args.cliff_rate).total > stint_out.total
    /\ _stint_time(stint_args.laps, stint_args.base_lap, stint_args.pace_offset,
                   stint_args.deg_rate, stint_args.cliff_onset, 10000).total > stint_out.total

-----------------------------------------------------------------------------
(* Strategy builders: routers/simulate.py                                  *)

\* CompoundParams of the intermediate tyre.
_inter_params ==
    [avg_deg_s_per_lap |-> 2000, cliff_onset_lap |-> 25, cliff_rate_s_per_lap2 |-> 500,
     typical_max_stint_laps |-> 40, base_pace_offset |-> 200000]

\* CompoundParams of the full wet tyre.
_wet_params ==
    [avg_deg_s_per_lap |-> 1000, cliff_onset_lap |-> 35, cliff_rate_s_per_lap2 |-> 300,
     typical_max_stint_laps |-> 50, base_pace_offset |-> 500000]

\* Pace multiplier on the track surface, in percent.
CONDITION_MULTIPLIER ==
    [c \in {"dry", "damp", "wet", "extreme"} |->
        CASE c = "dry" -> 100 [] c = "damp" -> 106 [] c = "wet" -> 115 [] c = "extreme" -> 135]

\* base_lap * CONDITION_MULTIPLIER[cond]
ConditionBase(base_lap, cond) == (base_lap * CONDITION_MULTIPLIER[cond]) \div 100

\* all_params with extra entries overriding or extending it ({**all_params, ...}).
MergeParams(all_params, extra) ==
    [c \in (DOMAIN all_params) \cup (DOMAIN extra) |->
        IF c \in DOMAIN extra THEN extra[c] ELSE all_params[c]]

StintOf(code, laps, base_lap, all_params) ==
    LET cp == all_params[code]
    IN  _stint_time(laps, base_lap, cp.base_pace_offset, cp.avg_deg_s_per_lap,
                    cp.cliff_onset_lap, cp.cliff_rate_s_per_lap2)

\* Quick total time evaluation for the optimizer: the loop from index i on.
RECURSIVE eval_loop(_, _, _, _, _, _)
eval_loop(i, stint_laps, compounds, base_lap, pit_loss, all_params) ==
    IF i > Min(Len(compounds), Len(stint_laps)) THEN 0
    ELSE StintOf(compounds[i], stint_laps[i], base_lap, all_params).total
           + (IF i - 1 < Len(compounds) - 1 THEN pit_loss ELSE 0)
           + eval_loop(i + 1, stint_laps, compounds, base_lap, pit_loss, all_params)

_eval_total(stint_laps, compounds, base_lap, pit_loss, all_params) ==
    eval_loop(1, stint_laps, compounds, base_lap, pit_loss, all_params)

\* The loop of _build_strategy from (1-based) index i on; acc carries
\* stints, pit_stop_laps, total_time and current_lap.
RECURSIVE build_loop(_, _, _, _, _, _, _)
build_loop(i, compound_seq, stint_laps, base_lap, pit_loss, all_params, acc) ==
    IF i > Min(Len(compound_seq), Len(stint_laps)) THEN acc
    ELSE
    LET code  == compound_seq[i]
        laps  == stint_laps[i]
        stops == Len(compound_seq) - 1
        st    == StintOf(code, laps, base_lap, all_params)
        detail == [stint_number |-> i, compound |-> code,
                   start_lap |-> acc.current_lap,
                   end_lap |-> acc.current_lap + laps - 1, laps |-> laps,
                   stint_time_s |-> Round3(st.total),
                   avg_lap_time_s |-> Round3(st.avg),
                   final_lap_time_s |-> Round3(st.final),
                   cliff_laps |-> st.cliff_laps,
                   is_wet_tyre |-> code \in {"INTERMEDIATE", "WET"}]
        pit   == i - 1 < stops
    IN  build_loop(i + 1, compound_seq, stint_laps, base_lap, pit_loss, all_params,
            [stints |-> Append(acc.stints, detail),
             pit_stop_laps |-> IF pit THEN Append(acc.pit_stop_laps, acc.current_lap + laps - 1)
                                      ELSE acc.pit_stop_laps,
             total_time |-> acc.total_time + st.total + (IF pit THEN pit_loss ELSE 0),
             current_lap |-> acc.current_lap + laps])

\* A slip of _build_strategy: the lap a stop is made on is recorded as the
\* first lap of the next stint.
_build_strategy_pit_next_lap(name, compound_seq, stint_laps, base_lap, pit_loss, all_params, weather_note) ==
    LET r == build_loop(1, compound_seq, stint_laps, base_lap, pit_loss, all_params,
                        [stints |-> <<>>, pit_stop_laps |-> <<>>, total_time |-> 0,
                         current_lap |-> 1])
    IN  [name |-> name, stops |-> Len(compound_seq) - 1,
         total_time_s |-> Round3(r.total_time),
         total_time_display |-> <<r.total_time \div 360000000,
                                  (r.total_time % 360000000) \div 6000000,
                                  Round3(r.total_time % 6000000)>>,
         pit_stop_laps |-> [k \in DOMAIN r.pit_stop_laps |-> r.pit_stop_laps[k] + 1],
         stints |-> r.stints,
         weather_note |-> weather_note]

\* A slip of _build_strategy: the pit losses are left out of the total.
_build_strategy_no_pit_loss(name, compound_seq, stint_laps, base_lap, pit_loss, all_params, weather_note) ==
    LET r == build_loop(1, compound_seq, stint_laps, base_lap, pit_loss, all_params,
                        [stints |-> <<>>, pit_stop_laps |-> <<>>, total_time |-> 0,
                         current_lap |-> 1])
        t == r.total_time - (Len(compound_seq) - 1) * pit_loss
    IN  [name |-> name, stops |-> Len(compound_seq) - 1,
         total_time_s |-> Round3(t),
         total_time_display |-> <<t \div 360000000, (t % 360000000) \div 6000000,
                                  Round3(t % 6000000)>>,
         pit_stop_laps |-> r.pit_stop_laps,
         stints |-> r.stints,
         weather_note |-> weather_note]

\* StrategyResult for a compound sequence and its stint lengths.
\* total_time_display is kept as <<hours, minutes, seconds>>.
_build_strategy(name, compound_seq, stint_laps, base_lap, pit_loss, all_params, weather_note) ==
    LET r == build_loop(1, compound_seq, stint_laps, base_lap, pit_loss, all_params,
                        [stints |-> <<>>, pit_stop_laps |-> <<>>, total_time |-> 0,
                         current_lap |-> 1])
    IN  [name |-> name, stops |-> Len(compound_seq) - 1,
         total_time_s |-> Round3(r.total_time),
         total_time_display |-> <<r.total_time \div 360000000,
                                  (r.total_time % 360000000) \div 6000000,
                                  Round3(r.total_time % 6000000)>>,
         pit_stop_laps |-> r.pit_stop_laps,
         stints |-> r.stints,
         weather_note |-> weather_note]

\* A slip of the comparison: a split of equal time replaces the best one.
Better_or_equal(t, best) == best.inf \/ t <= best.time

\* best_time = float("inf") is the flag inf; a time is below it whatever it is.
Better(t, best) == best.inf \/ t < best.time

\* for split in range(5, total_laps - 4): the loop from split on.
RECURSIVE opt1_loop(_, _, _, _, _, _, _, _)
opt1_loop(split, total_laps, base_lap, pit_loss, c1, c2, all_params, best) ==
    LET max1 == all_params[c1].typical_max_stint_laps + 5
        max2 == all_params[c2].typical_max_stint_laps + 5
        t    == _eval_total(<<split, total_laps - split>>, <<c1, c2>>, base_lap, pit_loss,
                            all_params)
    IN  IF split >= total_laps - 4 THEN best
        ELSE IF split > max1 \/ (total_laps - split) > max2
        THEN opt1_loop(split + 1, total_laps, base_lap, pit_loss, c1, c2, all_params, best)
        ELSE IF Better(t, best)
        THEN opt1_loop(split + 1, total_laps, base_lap, pit_loss, c1, c2, all_params,
                       [inf |-> FALSE, time |-> t, split |-> split])
        ELSE opt1_loop(split + 1, total_laps, base_lap, pit_loss, c1, c2, all_params, best)

\* A slip of _optimize_1stop: the search starts at a first stint of 4 laps
\* and runs to a last stint of 4 laps.
_optimize_1stop_from_lap_4(total_laps, base_lap, pit_loss, c1, c2, all_params) ==
    LET times == [sp \in 4 .. total_laps - 4 |->
                    _eval_total(<<sp, total_laps - sp>>, <<c1, c2>>, base_lap, pit_loss,
                                all_params)]
        best_split == CHOOSE sp \in DOMAIN times :
                         \A o \in DOMAIN times :
                            times[sp] < times[o] \/ (times[sp] = times[o] /\ sp <= o)
    IN  _build_strategy(<<"1-Stop", c1, c2>>, <<c1, c2>>,
                        <<best_split, total_laps - best_split>>, base_lap, pit_loss,
                        all_params, <<>>)

\* A slip of _optimize_1stop: the second stint is taken as the first one's length.
_optimize_1stop_same_len(total_laps, base_lap, pit_loss, c1, c2, all_params) ==
    LET best == opt1_loop(5, total_laps, base_lap, pit_loss, c1, c2, all_params,
                          [inf |-> TRUE, time |-> 0, split |-> total_laps \div 2])
        best_split == IF best.inf THEN total_laps \div 2 ELSE best.split
    IN  _build_strategy(<<"1-Stop", c1, c2>>, <<c1, c2>>,
                        <<best_split, best_split>>, base_lap, pit_loss, all_params, <<>>)

_optimize_1stop(total_laps, base_lap, pit_loss, c1, c2, all_params) ==
    LET best == opt1_loop(5, total_laps, base_lap, pit_loss, c1, c2, all_params,
                          [inf |-> TRUE, time |-> 0, split |-> total_laps \div 2])
        best_split == IF best.inf THEN total_laps \div 2 ELSE best.split
    IN  _build_strategy(<<"1-Stop", c1, c2>>, <<c1, c2>>,
                        <<best_split, total_laps - best_split>>, base_lap, pit_loss,
                        all_params, <<>>)

\* for s2 in range(5, min(total_laps - s1 - 4, max2 + 1)): the loop from s2 on.
RECURSIVE opt2_inner(_, _, _, _, _, _, _, _, _, _)
opt2_inner(s1, s2, total_laps, base_lap, pit_loss, c1, c2, c3, all_params, best) ==
    LET max2 == all_params[c2].typical_max_stint_laps + 5
        max3 == all_params[c3].typical_max_stint_laps + 5
        s3   == total_laps - s1 - s2
        t    == _eval_total(<<s1, s2, s3>>, <<c1, c2, c3>>, base_lap, pit_loss, all_params)
    IN  IF s2 >= Min(total_laps - s1 - 4, max2 + 1) THEN best
        ELSE IF s3 < 5 \/ s3 > max3
        THEN opt2_inner(s1, s2 + 1, total_laps, base_lap, pit_loss, c1, c2, c3, all_params,
                        best)
        ELSE IF Better(t, best)
        THEN opt2_inner(s1, s2 + 1, total_laps, base_lap, pit_loss, c1, c2, c3, all_params,
                        [inf |-> FALSE, time |-> t, s1 |-> s1, s2 |-> s2])
        ELSE opt2_inner(s1, s2 + 1, total_laps, base_lap, pit_loss, c1, c2, c3, all_params,
                        best)

\* for s1 in range(5, min(total_laps - 9, max1 + 1)): the loop from s1 on.
RECURSIVE opt2_outer(_, _, _, _, _, _, _, _, _)
opt2_outer(s1, total_laps, base_lap, pit_loss, c1, c2, c3, all_params, best) ==
    LET max1 == all_params[c1].typical_max_stint_laps + 5
        nb   == opt2_inner(s1, 5, total_laps, base_lap, pit_loss, c1, c2, c3, all_params, best)
    IN  IF s1 >= Min(total_laps - 9, max1 + 1) THEN best
        \* (nb is looked at first, so that the inner loop has run before the
        \* next iteration of the outer loop starts)
        ELSE IF nb.inf
        THEN opt2_outer(s1 + 1, total_laps, base_lap, pit_loss, c1, c2, c3, all_params, nb)
        ELSE opt2_outer(s1 + 1, total_laps, base_lap, pit_loss, c1, c2, c3, all_params, nb)

\* A slip of _optimize_2stop: the fallback takes three equal thirds and
\* drops the remainder.
_optimize_2stop_equal_thirds(total_laps, base_lap, pit_loss, c1, c2, c3, all_params) ==
    LET best == opt2_outer(5, total_laps, base_lap, pit_loss, c1, c2, c3, all_params,
                           [inf |-> TRUE, time |-> 0, s1 |-> total_laps \div 3,
                            s2 |-> total_laps \div 3])
        best_s1 == IF best.inf THEN total_laps \div 3 ELSE best.s1
        best_s2 == IF best.inf THEN total_laps \div 3 ELSE best.s2
        s3 == IF best.inf THEN total_laps \div 3 ELSE total_laps - best_s1 - best_s2
    IN  _build_strategy(<<"2-Stop", c1, c2, c3>>, <<c1, c2, c3>>,
                        <<best_s1, best_s2, s3>>, base_lap, pit_loss, all_params, <<>>)

_optimize_2stop(total_laps, base_lap, pit_loss, c1, c2, c3, all_params) ==
    LET best == opt2_outer(5, total_laps, base_lap, pit_loss, c1, c2, c3, all_params,
                           [inf |-> TRUE, time |-> 0, s1 |-> total_laps \div 3,
                            s2 |-> total_laps \div 3])
        best_s1 == IF best.inf THEN total_laps \div 3 ELSE best.s1
        best_s2 == IF best.inf THEN total_laps \div 3 ELSE best.s2
        s3 == total_laps - best_s1 - best_s2
    IN  _build_strategy(<<"2-Stop", c1, c2, c3>>, <<c1, c2, c3>>,
                        <<best_s1, best_s2, s3>>, base_lap, pit_loss, all_params, <<>>)

-----------------------------------------------------------------------------
(* Wet strategy generation: routers/simulate.py                            *)

\* int(total_laps * rain_intensity * factor), rain_intensity in percent and
\* factor in tenths.
DryingLap(total_laps, rain_intensity, factor10) ==
    FloorDiv(total_laps * rain_intensity * factor10, 1000)

\* A slip of the damp crossover: the drying lap is not held to
\* total_laps - 10.
damp_crossover_without_upper_clamp(total_laps, rain_intensity) ==
    Max(5, DryingLap(total_laps, rain_intensity, 5))

\* A slip of the damp crossover: the wet condition's factor 0.7 is used.
damp_crossover_wet_factor(total_laps, rain_intensity) ==
    Max(5, Min(DryingLap(total_laps, rain_intensity, 7), total_laps - 10))

damp_crossover(total_laps, rain_intensity) ==
    Max(5, Min(DryingLap(total_laps, rain_intensity, 5), total_laps - 10))

wet_crossover(total_laps, rain_intensity) ==
    Max(10, Min(DryingLap(total_laps, rain_intensity, 7), total_laps - 5))

extreme_switch(total_laps, rain_intensity) ==
    Min(Max(total_laps \div 2, DryingLap(total_laps, rain_intensity, 6)), total_laps - 5)

\* The pairs (sc1, sc2) of the nested loops over slick_codes, in loop order.
CodePairs(slick_codes) ==
    LET n == Len(slick_codes)
    IN  [k \in 1 .. n * n |->
            <<slick_codes[((k - 1) \div n) + 1], slick_codes[((k - 1) % n) + 1]>>]

damp_strategies(rain_intensity, total_laps, base_lap, pit_loss, slick_codes, all_params) ==
    LET crossover == damp_crossover(total_laps, rain_intensity)
        note == <<"Track dries ~lap", crossover, "Inters mandatory at start.">>
        inter_p == _inter_params
        inter_adjusted ==
            [avg_deg_s_per_lap |-> inter_p.avg_deg_s_per_lap,
             cliff_onset_lap |-> crossover,
             cliff_rate_s_per_lap2 |-> 10000,
             typical_max_stint_laps |-> crossover + 5,
             base_pace_offset |-> inter_p.base_pace_offset]
        adjusted_params == MergeParams(all_params, [c \in {"INTERMEDIATE"} |-> inter_adjusted])
        base_damp == ConditionBase(base_lap, "damp")
        one_stops ==
            [k \in 1 .. Len(slick_codes) |->
                _build_strategy(<<"1-Stop", "INTER", slick_codes[k]>>,
                                <<"INTERMEDIATE", slick_codes[k]>>,
                                <<crossover, total_laps - crossover>>,
                                base_damp, pit_loss, adjusted_params, note)]
        s2_laps == (total_laps - crossover) \div 2
        s3_laps == total_laps - crossover - s2_laps
        pairs == SelectSeq(CodePairs(slick_codes),
                           LAMBDA p : p[1] # p[2] /\ ~(s2_laps < 5 \/ s3_laps < 5))
        two_stops ==
            [k \in 1 .. Len(pairs) |->
                _build_strategy(<<"2-Stop", "INTER", pairs[k][1], pairs[k][2]>>,
                                <<"INTERMEDIATE", pairs[k][1], pairs[k][2]>>,
                                <<crossover, s2_laps, s3_laps>>,
                                base_damp, pit_loss, adjusted_params, note)]
    IN  one_stops \o two_stops

wet_strategies(rain_intensity, total_laps, base_lap, pit_loss, slick_codes, all_params) ==
    LET crossover == wet_crossover(total_laps, rain_intensity)
        base_wet == ConditionBase(base_lap, "wet")
        adjusted_params ==
            MergeParams(all_params,
                        [c \in {"INTERMEDIATE", "WET"} |->
                            IF c = "INTERMEDIATE" THEN _inter_params ELSE _wet_params])
        full_inter ==
            <<_build_strategy(<<"0-Stop", "INTERMEDIATE">>, <<"INTERMEDIATE">>, <<total_laps>>,
                              base_wet, pit_loss, adjusted_params,
                              <<"Full wet race on inters">>)>>
        switch == total_laps \div 2
        wet_inter ==
            IF rain_intensity > 50
            THEN <<_build_strategy(<<"1-Stop", "WET", "INTER">>, <<"WET", "INTERMEDIATE">>,
                                   <<switch, total_laps - switch>>,
                                   base_wet, pit_loss, adjusted_params,
                                   <<"Start Full Wets, switch to Inters as rain eases">>)>>
            ELSE <<>>
        first_two == SubSeq(slick_codes, 1, Min(2, Len(slick_codes)))
        inter_slick ==
            IF rain_intensity < 60 /\ crossover < total_laps - 8
            THEN [k \in 1 .. Len(first_two) |->
                    _build_strategy(<<"1-Stop", "INTER", first_two[k]>>,
                                    <<"INTERMEDIATE", first_two[k]>>,
                                    <<crossover, total_laps - crossover>>,
                                    base_wet, pit_loss, adjusted_params,
                                    <<"Late crossover to slicks at ~lap", crossover>>)]
            ELSE <<>>
    IN  full_inter \o wet_inter \o inter_slick

extreme_strategies(rain_intensity, total_laps, base_lap, pit_loss, slick_codes, all_params) ==
    LET base_ext == ConditionBase(base_lap, "extreme")
        adjusted_params ==
            MergeParams(all_params,
                        [c \in {"INTERMEDIATE", "WET"} |->
                            IF c = "INTERMEDIATE" THEN _inter_params ELSE _wet_params])
        switch == extreme_switch(total_laps, rain_intensity)
    IN  << _build_strategy(<<"0-Stop", "WET">>, <<"WET">>, <<total_laps>>,
                           base_ext, pit_loss, adjusted_params,
                           <<"Extreme rain - Full Wets only">>),
           _build_strategy(<<"1-Stop", "WET", "INTER">>, <<"WET", "INTERMEDIATE">>,
                           <<switch, total_laps - switch>>,
                           base_ext, pit_loss, adjusted_params,
                           <<"Switch to Inters if rain eases">>) >>

\* A slip of the wet branch: the full-race INTERMEDIATE strategy is left out.
_generate_wet_strategies_without_full_inter(condition, rain_intensity, total_laps, base_lap, pit_loss, slick_codes, all_params) ==
    IF condition = "damp"
    THEN damp_strategies(rain_intensity, total_laps, base_lap, pit_loss, slick_codes, all_params)
    ELSE IF condition = "wet"
    THEN Tail(wet_strategies(rain_intensity, total_laps, base_lap, pit_loss, slick_codes,
                             all_params))
    ELSE IF condition = "extreme"
    THEN extreme_strategies(rain_intensity, total_laps, base_lap, pit_loss, slick_codes,
                            all_params)
    ELSE <<>>

\* Condition-appropriate strategies involving wet tyres; none for any other condition.
_generate_wet_strategies(condition, rain_intensity, total_laps, base_lap, pit_loss, slick_codes, all_params) ==
    IF condition = "damp"
    THEN damp_strategies(rain_intensity, total_laps, base_lap, pit_loss, slick_codes, all_params)
    ELSE IF condition = "wet"
    THEN wet_strategies(rain_intensity, total_laps, base_lap, pit_loss, slick_codes, all_params)
    ELSE IF condition = "extreme"
    THEN extreme_strategies(rain_intensity, total_laps, base_lap, pit_loss, slick_codes,
                            all_params)
    ELSE <<>>

-----------------------------------------------------------------------------
(* The endpoint: routers/simulate.py                                       *)

\* The combos (c1, c2, c3) of the nested loops over slick_codes, in loop order.
CodeTriples(slick_codes) ==
    LET n == Len(slick_codes)
    IN  [k \in 1 .. n * n * n |->
            <<slick_codes[((k - 1) \div (n * n)) + 1],
              slick_codes[(((k - 1) \div n) % n) + 1],
              slick_codes[((k - 1) % n) + 1]>>]

\* The candidates of a dry race, in the order they are appended.
dry_strategies(request) ==
    LET pairs == SelectSeq(CodePairs(request.slick_codes), LAMBDA p : ~(p[1] = p[2]))
        combos == SelectSeq(CodeTriples(request.slick_codes),
                            LAMBDA c : ~(Cardinality({c[1], c[2], c[3]}) < 2))
    IN  [k \in DOMAIN pairs |->
            _optimize_1stop(request.total_laps, request.base_lap_time_s,
                            request.pit_loss_seconds, pairs[k][1], pairs[k][2],
                            request.compounds)]
        \o [k \in DOMAIN combos |->
            _optimize_2stop(request.total_laps, request.base_lap_time_s,
                            request.pit_loss_seconds, combos[k][1], combos[k][2],
                            combos[k][3], request.compounds)]

\* list.sort(key=lambda s: s.total_time_s), a stable sort: x is put after
\* the elements of the sorted list that are not slower than it.
RECURSIVE insert_by_time(_, _)
insert_by_time(x, sorted) ==
    IF sorted = <<>> THEN <<x>>
    ELSE IF Head(sorted).total_time_s <= x.total_time_s
    THEN <<Head(sorted)>> \o insert_by_time(x, Tail(sorted))
    ELSE <<x>> \o sorted

RECURSIVE sort_loop(_, _)
sort_loop(list, sorted) ==
    IF list = <<>> THEN sorted
    ELSE sort_loop(Tail(list), insert_by_time(Head(list), sorted))

\* A slip of the sort: slowest first.
sort_by_time_descending(list) ==
    LET asc == sort_loop(list, <<>>)
    IN  [k \in DOMAIN asc |-> asc[Len(asc) + 1 - k]]

sort_by_time(list) == sort_loop(list, <<>>)

\* list[:n]
Take(list, n) == SubSeq(list, 1, Min(n, Len(list)))

\* The candidates of a request before they are sorted.
generated_strategies(request) ==
    IF request.weather_condition = "dry" THEN dry_strategies(request)
    ELSE _generate_wet_strategies(request.weather_condition, request.rain_intensity,
                                  request.total_laps, request.base_lap_time_s,
                                  request.pit_loss_seconds, request.slick_codes,
                                  request.compounds)

\* The strategies of the response: the best three 1-stops and 2-stops of a
\* dry race re-sorted, else the first six candidates.
final_strategies(request, all_strategies) ==
    IF request.weather_condition = "dry"
    THEN sort_by_time(Take(SelectSeq(all_strategies, LAMBDA x : x.stops = 1), 3)
                      \o Take(SelectSeq(all_strategies, LAMBDA x : x.stops = 2), 3))
    ELSE Take(all_strategies, 6)

\* SimulateResponse(...) over the final strategies.
SimulateResponse(request, final) ==
    [total_laps |-> request.total_laps,
     pit_loss_seconds |-> request.pit_loss_seconds,
     base_lap_time_s |-> request.base_lap_time_s,
     weather_condition |-> request.weather_condition,
     rain_intensity |-> request.rain_intensity,
     strategies |-> final,
     recommended |-> IF final # <<>> THEN final[1].name ELSE "N/A",
     delta_s |-> IF Len(final) > 1
                 THEN Round3(final[2].total_time_s - final[1].total_time_s)
                 ELSE 0]

\* The response over the sorted candidates.
respond(request, all_strategies) ==
    [all_strategies |-> all_strategies,
     response |-> SimulateResponse(request, final_strategies(request, all_strategies))]

\* The sorted candidates and the response of simulate_strategy.
simulate_strategy(request) == respond(request, sort_by_time(generated_strategies(request)))

-----------------------------------------------------------------------------
(* Specification of the strategy builders                                  *)

MaxLaps == 20

CP(deg, onset, rate, cap, offset) ==
    [avg_deg_s_per_lap |-> deg, cliff_onset_lap |-> onset, cliff_rate_s_per_lap2 |-> rate,
     typical_max_stint_laps |-> cap, base_pace_offset |-> offset]

\* Compound tables of a request: the key order of req.compounds and its entries.
TableScenario ==
    [codes |-> <<"C2", "C4">>,
     params |-> [c \in {"C2", "C4"} |->
                    IF c = "C2" THEN CP(4500, 30, 800, 40, 130000)
                                ELSE CP(9500, 18, 2500, 25, 20000)]]
TableTight ==
    [codes |-> <<"C2", "C4">>,
     params |-> [c \in {"C2", "C4"} |->
                    IF c = "C2" THEN CP(4512, 3, 1500, 1, 130000)
                                ELSE CP(9524, 3, 2500, 2, 0)]]
TableThree ==
    [codes |-> <<"C2", "C3", "C4">>,
     params |-> [c \in {"C2", "C3", "C4"} |->
                    IF c = "C2" THEN CP(4500, 30, 800, 40, 130000)
                    ELSE IF c = "C3" THEN CP(6500, 24, 1200, 32, 70000)
                    ELSE CP(9500, 18, 2500, 25, 20000)]]
TableFine ==
    [codes |-> <<"C5", "C3">>,
     params |-> [c \in {"C3", "C5"} |->
                    IF c = "C3" THEN CP(6512, 6, 1200, 12, 70000)
                                ELSE CP(14004, 4, 3500, 8, 0)]]

\* Two compounds that do not degrade: every split takes the same time.
TableFlat ==
    [codes |-> <<"C1", "C2">>,
     params |-> [c \in {"C1", "C2"} |-> CP(0, 40, 0, 40, 0)]]
\* A request with one compound only.
TableSingle ==
    [codes |-> <<"C3">>,
     params |-> [c \in {"C3"} |-> CP(6500, 24, 1200, 32, 0)]]
SimTables     == {TableScenario, TableTight, TableThree, TableFine, TableFlat, TableSingle}
TotalLapsSet  == (10 .. MaxLaps) \cup {58}
PitLossSet    == {2200000, 2200044}            \* 22 s, 22.00044 s
SimBaseLapSet == {9000000, 8250000}            \* 90 s, 82.5 s
RainSet       == {0, 30, 40, 50, 55, 60, 100}  \* percent
ConditionSet  == {"dry", "damp", "wet", "extreme"}

SimInit ==
    /\ pc = "ready"
    /\ \E tl \in TotalLapsSet, pl \in PitLossSet, bl \in SimBaseLapSet, tab \in SimTables,
          cond \in ConditionSet, rain \in RainSet :
           /\ cond = "dry" => rain = 0
           /\ req = [total_laps |-> tl, pit_loss_seconds |-> pl, base_lap_time_s |-> bl,
                     weather_condition |-> cond, rain_intensity |-> rain,
                     slick_codes |-> tab.codes, compounds |-> tab.params]
    /\ strategies = <<>>
    /\ response = <<>>
    /\ StintIdle /\ HistIdle /\ TempIdle /\ ScoreIdle /\ DegIdle /\ CircuitIdle /\ CacheIdle

SlickSet == {req.slick_codes[k] : k \in DOMAIN req.slick_codes}

CallOptimize1Stop ==
    /\ pc = "ready"
    /\ req.weather_condition = "dry"
    /\ \E c1 \in SlickSet, c2 \in SlickSet :
          /\ c1 # c2
          /\ strategies' = << _optimize_1stop(req.total_laps, req.base_lap_time_s,
                                              req.pit_loss_seconds, c1, c2, req.compounds) >>
    /\ pc' = "optimize_1stop"
    /\ UNCHANGED <<req, response, stint_vars, hist_vars, temp_vars, score_vars, deg_vars, circuit_vars, cache_vars>>

CallOptimize2Stop ==
    /\ pc = "ready"
    /\ req.weather_condition = "dry"
    /\ \E c1 \in SlickSet, c2 \in SlickSet, c3 \in SlickSet :
          /\ Cardinality({c1, c2, c3}) >= 2
          /\ strategies' = << _optimize_2stop(req.total_laps, req.base_lap_time_s,
                                              req.pit_loss_seconds, c1, c2, c3,
                                              req.compounds) >>
    /\ pc' = "optimize_2stop"
    /\ UNCHANGED <<req, response, stint_vars, hist_vars, temp_vars, score_vars, deg_vars, circuit_vars, cache_vars>>

CallGenerateWet ==
    /\ pc = "ready"
    /\ req.weather_condition # "dry"
    /\ strategies' = _generate_wet_strategies(req.weather_condition, req.rain_intensity,
                                              req.total_laps, req.base_lap_time_s,
                                              req.pit_loss_seconds, req.slick_codes,
                                              req.compounds)
    /\ pc' = "generate_wet"
    /\ UNCHANGED <<req, response, stint_vars, hist_vars, temp_vars, score_vars, deg_vars, circuit_vars, cache_vars>>

CallSimulateStrategy ==
    /\ pc = "ready"
    /\ req.total_laps <= MaxLaps
    /\ \E r \in {simulate_strategy(req)} :
          /\ strategies' = r.all_strategies
          /\ response' = r.response
    /\ pc' = "simulate_strategy"
    /\ UNCHANGED <<req, stint_vars, hist_vars, temp_vars, score_vars, deg_vars, circuit_vars, cache_vars>>

SimNext == CallOptimize1Stop \/ CallOptimize2Stop \/ CallGenerateWet \/ CallSimulateStrategy

SpecSim == SimInit /\ [][SimNext]_vars

\* The strategies of the current state, as a set.
Produced == {strategies[k] : k \in DOMAIN strategies}

StintLaps(s)  == [k \in DOMAIN s.stints |-> s.stints[k].laps]
StintTimes(s) == [k \in DOMAIN s.stints |-> s.stints[k].stint_time_s]

\* total_time_s minus (the reported stint times plus stops * pit_loss_seconds).
TotalGap(s) == s.total_time_s - (SumSeq(StintTimes(s)) + s.stops * req.pit_loss_seconds)

(* C1: every dry strategy returned by _optimize_1stop and _optimize_2stop, *)
(* the even-split fallback included, has stint lap counts that sum to      *)
(* exactly total_laps.                                                     *)
C1_LapsSumToTotal ==
    pc \in {"optimize_1stop", "optimize_2stop"} =>
        \A s \in Produced : SumSeq(StintLaps(s)) = req.total_laps

\* A 2-stop found by the fallback (no split within the caps), on a lap
\* count that three equal thirds do not fill.
C1_Witness ==
    /\ pc = "optimize_2stop"
    /\ req.total_laps % 3 # 0
    /\ \E s \in Produced :
          /\ opt2_outer(5, req.total_laps, req.base_lap_time_s, req.pit_loss_seconds,
                        s.name[2], s.name[3], s.name[4], req.compounds,
                        [inf |-> TRUE, time |-> 0, s1 |-> 0, s2 |-> 0]).inf
          /\ s.stints[1].laps = req.total_laps \div 3
          /\ s.stints[3].laps > req.total_laps \div 3

(* C2 as stated: total_time_s differs from the sum of the reported         *)
(* stint_time_s plus stops * pit_loss_seconds by at most 1e-3 (100 ticks). *)
C2_Original ==
    pc # "ready" => \A s \in Produced : Abs(TotalGap(s)) <= 100

(* C2 as amended: total_time_s and each stint_time_s being rounded         *)
(* independently to 3 decimals, the difference is at most 0.0005 s per     *)
(* rounded figure, i.e. 0.0005 * (number of stints + 1): 1e-3 for one      *)
(* stint, 1.5e-3 for two and 2e-3 for three.                               *)
C2_GapWithinRounding ==
    pc # "ready" => \A s \in Produced : Abs(TotalGap(s)) <= 50 * (Len(s.stints) + 1)

\* A three-stint strategy whose reported figures do not add up exactly.
C2_Witness ==
    /\ pc # "ready"
    /\ \E s \in Produced : Len(s.stints) = 3 /\ s.stops = 2 /\ TotalGap(s) # 0

(* C3: every StrategyResult produced in any weather mode has stops =       *)
(* number of stints - 1 and len(pit_stop_laps) = stops; its first stint    *)
(* starts at lap 1, each later stint starts at the previous end_lap + 1,   *)
(* every stint has laps >= 1 and end_lap - start_lap + 1 = laps, the last  *)
(* stint ends at total_laps, and pit_stop_laps[i] is the end_lap of        *)
(* stint i.                                                                *)
C3_StintStructure ==
    pc # "ready" =>
        \A s \in Produced :
            /\ Len(s.stints) >= 1
            /\ s.stops = Len(s.stints) - 1
            /\ Len(s.pit_stop_laps) = s.stops
            /\ s.stints[1].start_lap = 1
            /\ \A k \in 2 .. Len(s.stints) : s.stints[k].start_lap = s.stints[k - 1].end_lap + 1
            /\ \A k \in DOMAIN s.stints :
                  /\ s.stints[k].laps >= 1
                  /\ s.stints[k].end_lap - s.stints[k].start_lap + 1 = s.stints[k].laps
            /\ s.stints[Len(s.stints)].end_lap = req.total_laps
            /\ \A i \in DOMAIN s.pit_stop_laps : s.pit_stop_laps[i] = s.stints[i].end_lap

\* A wet-mode 2-stop: three stints and two recorded stops.
C3_Witness ==
    /\ pc = "generate_wet"
    /\ \E s \in Produced : Len(s.stints) = 3 /\ Len(s.pit_stop_laps) = 2
                           /\ s.pit_stop_laps[2] > s.pit_stop_laps[1]

(* C10: in damp condition there is one INTER -> slick 1-stop per supplied  *)
(* slick compound; its first stint is on INTERMEDIATE and has exactly      *)
(* crossover laps, and its single pit stop is on lap crossover, where      *)
(* crossover = max(5, min(floor(total_laps * rain_intensity * 0.5),        *)
(* total_laps - 10)); total_laps = 58 and rain_intensity = 0.4 give 11.    *)
C10_DampCrossoverStint ==
    (pc = "generate_wet" /\ req.weather_condition = "damp") =>
        LET x == Max(5, Min((req.total_laps * req.rain_intensity * 5) \div 1000,
                            req.total_laps - 10))
            one_stops == {k \in DOMAIN strategies : strategies[k].stops = 1}
        IN  /\ one_stops = 1 .. Len(req.slick_codes)
            /\ \A k \in one_stops :
                  LET s == strategies[k]
                  IN  /\ s.name = <<"1-Stop", "INTER", req.slick_codes[k]>>
                      /\ s.stints[1].compound = "INTERMEDIATE"
                      /\ s.stints[2].compound = req.slick_codes[k]
                      /\ s.stints[1].laps = x
                      /\ s.pit_stop_laps = <<x>>
            /\ (req.total_laps = 58 /\ req.rain_intensity = 40) => x = 11

\* The scenario of the specification: 58 laps, rain intensity 0.4.
C10_Witness ==
    /\ pc = "generate_wet"
    /\ req.weather_condition = "damp"
    /\ req.total_laps = 58
    /\ req.rain_intensity = 40
    /\ strategies[1].stints[1].laps = 11
    /\ strategies[1].pit_stop_laps = <<11>>

\* The crossover lap of a damp request as the generated strategies show it:
\* the length of the INTERMEDIATE first stint, which is the lap of the first
\* pit stop.
DampCrossovers == {strategies[k].stints[1].laps : k \in DOMAIN strategies}

(* C22 as stated: in damp condition 5 <= crossover <= total_laps - 10 for  *)
(* every total_laps in 10 .. 100 and every rain_intensity.                 *)
C22_Original ==
    (pc = "generate_wet" /\ req.weather_condition = "damp") =>
        \A x \in DampCrossovers : 5 <= x /\ x <= req.total_laps - 10

(* C22: in damp condition every generated strategy starts on INTERMEDIATE  *)
(* and stops first on the crossover lap, which is the same for all of      *)
(* them, is at least 5 and at most max(5, total_laps - 10): at most        *)
(* total_laps - 10 when total_laps >= 15, and exactly 5 when total_laps is *)
(* between 10 and 15.                                                      *)
C22_DampCrossoverClamped ==
    (pc = "generate_wet" /\ req.weather_condition = "damp") =>
        /\ strategies # <<>>
        /\ Cardinality(DampCrossovers) = 1
        /\ \A k \in DOMAIN strategies :
              /\ strategies[k].stints[1].compound = "INTERMEDIATE"
              /\ strategies[k].pit_stop_laps[1] = strategies[k].stints[1].laps
        /\ \A x \in DampCrossovers :
              /\ 5 <= x
              /\ x <= Max(5, req.total_laps - 10)
              /\ req.total_laps >= 15 => x <= req.total_laps - 10
              /\ req.total_laps <= 15 => x = 5

\* Heavy rain over a short race: the drying lap 16 * 1.0 * 0.5 = 8 is held
\* to total_laps - 10 = 6.
C22_Witness ==
    /\ pc = "generate_wet"
    /\ req.weather_condition = "damp"
    /\ req.total_laps = 16
    /\ req.rain_intensity = 100
    /\ DampCrossovers = {6}

\* The compounds of a strategy's stints, in order.
StintCompounds(s) == [k \in DOMAIN s.stints |-> s.stints[k].compound]

\* The INTER -> slick 1-stops among the generated candidates.
InterSlick == {s \in Produced : /\ Len(s.stints) = 2
                                /\ s.stints[1].compound = "INTERMEDIATE"
                                /\ s.stints[2].compound \notin {"INTERMEDIATE", "WET"}}

Cap(c) == req.compounds[c].typical_max_stint_laps + 5

\* The splits of the 1-stop search range within both caps, for the pair
\* (c1, c2): first stints of 5 to total_laps - 5 laps.
Feasible1(c1, c2) ==
    {sp \in 5 .. req.total_laps - 5 : sp <= Cap(c1) /\ req.total_laps - sp <= Cap(c2)}

\* The splits of the 2-stop search range within the three caps: stints of
\* at least 5 laps each.
Feasible2(c1, c2, c3) ==
    {sp \in (5 .. req.total_laps) \X (5 .. req.total_laps) :
        /\ sp[1] <= Cap(c1) /\ sp[2] <= Cap(c2)
        /\ req.total_laps - sp[1] - sp[2] >= 5
        /\ req.total_laps - sp[1] - sp[2] <= Cap(c3)}

(* C13: when no split of the search range is within all the caps,          *)
(* _optimize_1stop still returns a strategy, the even split                *)
(* (total_laps // 2, remainder), and _optimize_2stop the split             *)
(* (total_laps // 3, total_laps // 3, remainder).                          *)
C13_EvenSplitFallback ==
    /\ (pc = "optimize_1stop" /\ Feasible1(strategies[1].name[2], strategies[1].name[3]) = {}) =>
          /\ Len(strategies) = 1
          /\ StintLaps(strategies[1]) =
                <<req.total_laps \div 2, req.total_laps - req.total_laps \div 2>>
    /\ (/\ pc = "optimize_2stop"
        /\ Feasible2(strategies[1].name[2], strategies[1].name[3], strategies[1].name[4]) = {}) =>
          /\ Len(strategies) = 1
          /\ StintLaps(strategies[1]) =
                <<req.total_laps \div 3, req.total_laps \div 3,
                  req.total_laps - 2 * (req.total_laps \div 3)>>

\* A 1-stop over an odd number of laps whose search range has splits, none
\* of them within the caps.
C13_Witness ==
    /\ pc = "optimize_1stop"
    /\ req.total_laps = 19
    /\ Feasible1(strategies[1].name[2], strategies[1].name[3]) = {}
    /\ StintLaps(strategies[1]) = <<9, 10>>

\* The time of the 1-stop split sp for the pair (c1, c2): the two stint
\* times plus one pit loss.
SplitTime(sp, c1, c2) ==
    StintOf(c1, sp, req.base_lap_time_s, req.compounds).total
    + StintOf(c2, req.total_laps - sp, req.base_lap_time_s, req.compounds).total
    + req.pit_loss_seconds

(* C14: whenever a split of the search range is within both caps, the      *)
(* strategy of _optimize_1stop for (c1, c2) has a first stint of at most   *)
(* typical_max_stint_laps(c1) + 5 laps and a second of at most             *)
(* typical_max_stint_laps(c2) + 5, its time (stint times plus one pit      *)
(* loss) is at most that of every split within the caps, and among splits  *)
(* of equal time it is the smallest.                                       *)
C14_BestFeasibleSplit ==
    (pc = "optimize_1stop") =>
        LET c1 == strategies[1].name[2]
            c2 == strategies[1].name[3]
            laps == StintLaps(strategies[1])
        IN  Feasible1(c1, c2) # {} =>
                /\ laps[1] <= Cap(c1)
                /\ laps[2] <= Cap(c2)
                /\ laps[1] \in Feasible1(c1, c2)
                /\ \A sp \in Feasible1(c1, c2) :
                      /\ SplitTime(laps[1], c1, c2) <= SplitTime(sp, c1, c2)
                      /\ SplitTime(laps[1], c1, c2) = SplitTime(sp, c1, c2) => laps[1] <= sp

\* The scenario of 57 laps cannot be had within the lap bound; over 58
\* laps a split strictly inside the feasible range is the best one.
C14_Witness ==
    /\ pc = "optimize_1stop"
    /\ req.total_laps = 58
    /\ LET c1 == strategies[1].name[2]
           c2 == strategies[1].name[3]
           laps == StintLaps(strategies[1])
       IN  /\ Cardinality(Feasible1(c1, c2)) > 2
           /\ \E lo, hi \in Feasible1(c1, c2) : lo < laps[1] /\ laps[1] < hi
           /\ \A sp \in Feasible1(c1, c2) \ {laps[1]} :
                 SplitTime(laps[1], c1, c2) < SplitTime(sp, c1, c2)

\* The candidates generated by simulate_strategy and the entries it returns.
Candidates == {strategies[k] : k \in DOMAIN strategies}
Returned   == {response.strategies[k] : k \in DOMAIN response.strategies}

\* The entries returned are the n fastest of the candidates in pool.
FastestOf(pool, kept, n) ==
    /\ kept \subseteq pool
    /\ Cardinality(kept) = Min(n, Cardinality(pool))
    /\ \A x \in kept, y \in pool \ kept : x.total_time_s <= y.total_time_s

\* What C15 says of the list and of delta_s.
RankedList ==
    /\ \A i, j \in DOMAIN response.strategies :
          i < j => response.strategies[i].total_time_s <= response.strategies[j].total_time_s
    /\ Len(response.strategies) <= 6
    /\ Cardinality(Returned) = Len(response.strategies)
    /\ IF req.weather_condition = "dry"
       THEN /\ \A x \in Returned : x.stops \in {1, 2}
            /\ \A n \in {1, 2} : FastestOf({x \in Candidates : x.stops = n},
                                           {x \in Returned : x.stops = n}, 3)
       ELSE FastestOf(Candidates, Returned, 6)
    /\ response.delta_s >= 0
    /\ response.delta_s =
          IF Len(response.strategies) < 2 THEN 0
          ELSE response.strategies[2].total_time_s - response.strategies[1].total_time_s

\* recommended is the name of a fastest candidate.
RecommendedIsFastest ==
    \E x \in Candidates :
        /\ response.recommended = x.name
        /\ \A y \in Candidates : x.total_time_s <= y.total_time_s

C21_Original ==
    (pc = "optimize_1stop"
     /\ Feasible1(strategies[1].name[2], strategies[1].name[3]) # {}) =>
        /\ 5 <= StintLaps(strategies[1])[1]
        /\ StintLaps(strategies[1])[1] < req.total_laps - 5

(* C21: whenever a split within both caps was found by the 1-stop search,  *)
(* the split chosen lies in the closed range 5 .. total_laps - 5 of        *)
(* range(5, total_laps - 4): the first stint has at least 5 and at most    *)
(* total_laps - 5 laps, and the second at least 5.                         *)
C21_SplitInClosedRange ==
    (pc = "optimize_1stop"
     /\ Feasible1(strategies[1].name[2], strategies[1].name[3]) # {}) =>
        /\ 5 <= StintLaps(strategies[1])[1]
        /\ StintLaps(strategies[1])[1] <= req.total_laps - 5
        /\ StintLaps(strategies[1])[2] >= 5

\* A search over more than one split whose best split is the last of the
\* range, a second stint of exactly 5 laps, where the even split is another.
C21_Witness ==
    /\ pc = "optimize_1stop"
    /\ req.total_laps > 12
    /\ Cardinality(Feasible1(strategies[1].name[2], strategies[1].name[3])) > 1
    /\ StintLaps(strategies[1])[1] = req.total_laps - 5
    /\ StintLaps(strategies[1])[1] # req.total_laps \div 2

-----------------------------------------------------------------------------
(* Historical pattern analyser: utils/historical_analysis.py               *)
(* A race is its driver_stints, as the list of the drivers' stint lists in *)
(* iteration order; a stint is [compound, end_lap].                        *)

MIN_DRIVERS_FOR_IQR == 4

\* The absent value (None) of a sub-computation.
None == [absent |-> TRUE]

\* The stint lists met by "for race in sessions_data: for driver, stints in
\* race[driver_stints].items()", in iteration order.
RECURSIVE AllStints(_)
AllStints(sessions) ==
    IF sessions = <<>> THEN <<>>
    ELSE Head(sessions).driver_stints \o AllStints(Tail(sessions))

Range(s) == {s[i] : i \in DOMAIN s}

\* The array in ascending order, as numpy orders it before interpolating.
Sorted(s) ==
    [i \in 1 .. Len(s) |->
        CHOOSE v \in Range(s) :
            /\ Cardinality({j \in DOMAIN s : s[j] < v}) < i
            /\ i <= Cardinality({j \in DOMAIN s : s[j] <= v})]

\* np.percentile(arr, q) with linear interpolation, q a multiple of 25,
\* for whole-lap data: four times the percentile.
Percentile4(arr, q) ==
    LET a  == Sorted(arr)
        m  == (q \div 25) * (Len(arr) - 1)
        lo == m \div 4
        r  == m % 4
    IN  IF r = 0 THEN 4 * a[lo + 1]
        ELSE 4 * a[lo + 1] + r * (a[lo + 2] - a[lo + 1])

\* np.median(arr): four times the median.
Median4(arr) ==
    LET a == Sorted(arr)
        n == Len(arr)
    IN  IF n % 2 = 1 THEN 4 * a[(n \div 2) + 1]
        ELSE 2 * (a[n \div 2] + a[(n \div 2) + 1])

\* round(x, 1) of a value held in quarters: the result in tenths.
Round1Of4(x4) == RoundDiv(x4 * 10, 4)

\* A slip of the collection loop: the lap-1 damage stops are not skipped.
first_stop_laps_with_lap1(sessions) ==
    LET with_stop == SelectSeq(AllStints(sessions), LAMBDA stints : ~(Len(stints) < 2))
    IN  [k \in 1 .. Len(with_stop) |-> with_stop[k][1].end_lap]

\* The first-stop laps collected by the loop of _compute_first_stop_stats.
first_stop_laps(sessions) ==
    LET with_stop == SelectSeq(AllStints(sessions),
                               LAMBDA stints : ~(Len(stints) < 2) /\ ~(stints[1].end_lap <= 1))
    IN  [k \in 1 .. Len(with_stop) |-> with_stop[k][1].end_lap]

\* A slip of _compute_first_stop_stats: the quartiles are taken the wrong
\* way round.
_compute_first_stop_stats_swapped(sessions, notes_in) ==
    LET laps == first_stop_laps(sessions)
        p25 == Percentile4(laps, 75)
        median == Median4(laps)
        p75 == Percentile4(laps, 25)
    IN  IF Len(laps) < MIN_DRIVERS_FOR_IQR
        THEN [result |-> None,
              notes |-> Append(notes_in, <<"First stop: only", Len(laps), "data points (need",
                                           MIN_DRIVERS_FOR_IQR, "). Insufficient.">>)]
        ELSE [result |-> [absent |-> FALSE, median |-> Round1Of4(median),
                          p25 |-> Round1Of4(p25), p75 |-> Round1Of4(p75),
                          iqr |-> Round1Of4(p75 - p25), n |-> Len(laps)],
              notes |-> notes_in]

\* {median, p25, p75, iqr, n} in tenths of a lap, or None with a note.
_compute_first_stop_stats(sessions, notes_in) ==
    LET laps == first_stop_laps(sessions)
        p25 == Percentile4(laps, 25)
        median == Median4(laps)
        p75 == Percentile4(laps, 75)
    IN  IF Len(laps) < MIN_DRIVERS_FOR_IQR
        THEN [result |-> None,
              notes |-> Append(notes_in, <<"First stop: only", Len(laps), "data points (need",
                                           MIN_DRIVERS_FOR_IQR, "). Insufficient.">>)]
        ELSE [result |-> [absent |-> FALSE, median |-> Round1Of4(median),
                          p25 |-> Round1Of4(p25), p75 |-> Round1Of4(p75),
                          iqr |-> Round1Of4(p75 - p25), n |-> Len(laps)],
              notes |-> notes_in]

\* The stop counts collected by the loop of _compute_stop_count_distribution.
stop_counts(sessions) ==
    LET all == AllStints(sessions)
    IN  [k \in 1 .. Len(all) |-> IF Len(all[k]) - 1 < 0 THEN 0 ELSE Len(all[k]) - 1]

\* round(count / n * 100, 1), in tenths of a percent.
Pct(count, n) == RoundDiv(count * 1000, n)

\* The 1-stop, 2-stop and 3+ shares in tenths of a percent, or None with a note.
_compute_stop_count_distribution(sessions, notes_in) ==
    LET sc == stop_counts(sessions)
        n == Len(sc)
        one == Cardinality({k \in DOMAIN sc : sc[k] = 1})
        two == Cardinality({k \in DOMAIN sc : sc[k] = 2})
        three_plus == Cardinality({k \in DOMAIN sc : sc[k] >= 3})
    IN  IF sc = <<>>
        THEN [result |-> None, notes |-> Append(notes_in, <<"Stop count: no data available.">>)]
        ELSE [result |-> [absent |-> FALSE, one_stop_pct |-> Pct(one, n),
                          two_stop_pct |-> Pct(two, n),
                          three_plus_pct |-> Pct(three_plus, n), n |-> n],
              notes |-> notes_in]

\* The compound sequences of the drivers, in iteration order, without the
\* drivers that have an UNKNOWN compound in any stint.
all_sequences(sessions) ==
    LET all == AllStints(sessions)
        compounds == [k \in DOMAIN all |-> [i \in DOMAIN all[k] |-> all[k][i].compound]]
    IN  SelectSeq(compounds, LAMBDA c : ~(\E i \in DOMAIN c : c[i] = "UNKNOWN"))

\* Counter(all_sequences).most_common(): the distinct sequences with their
\* counts, most frequent first, equal counts in order of first occurrence.
most_common(seqs) ==
    LET firsts == SelectSeq([k \in DOMAIN seqs |-> k],
                            LAMBDA k : ~(\E j \in 1 .. k - 1 : seqs[j] = seqs[k]))
        count(k) == Cardinality({j \in DOMAIN seqs : seqs[j] = seqs[k]})
        before(a, b) == count(a) > count(b) \/ (count(a) = count(b) /\ a < b)
        place(k) == 1 + Cardinality({j \in Range(firsts) : before(j, k)})
    IN  [p \in 1 .. Len(firsts) |->
            LET k == CHOOSE k \in Range(firsts) : place(k) = p
            IN  [seq |-> seqs[k], count |-> count(k)]]

\* A slip of _compute_common_sequences: the share is taken of all the
\* drivers, those left out for an UNKNOWN compound among them.
_compute_common_sequences_of_all_drivers(sessions, notes_in, top_n) ==
    LET seqs == all_sequences(sessions)
        top == SubSeq(most_common(seqs), 1, Min(top_n, Len(most_common(seqs))))
    IN  IF seqs = <<>>
        THEN [result |-> <<>>,
              notes |-> Append(notes_in, <<"Strategy sequences: no usable data.">>)]
        ELSE [result |-> [k \in DOMAIN top |->
                            [stops |-> Len(top[k].seq) - 1, sequence |-> top[k].seq,
                             frequency_pct |-> Pct(top[k].count, Len(AllStints(sessions))),
                             n |-> top[k].count]],
              notes |-> notes_in]

\* A slip of _compute_common_sequences: drivers with an UNKNOWN compound
\* are counted like the others.
_compute_common_sequences_with_unknown(sessions, notes_in, top_n) ==
    LET all == AllStints(sessions)
        seqs == [k \in DOMAIN all |-> [i \in DOMAIN all[k] |-> all[k][i].compound]]
        top == SubSeq(most_common(seqs), 1, Min(top_n, Len(most_common(seqs))))
    IN  [result |-> [k \in DOMAIN top |->
                        [stops |-> Len(top[k].seq) - 1, sequence |-> top[k].seq,
                         frequency_pct |-> Pct(top[k].count, Len(seqs)), n |-> top[k].count]],
         notes |-> notes_in]

\* The top_n sequences with count and share (tenths of a percent) of the
\* included drivers, or the empty list with a note.
_compute_common_sequences(sessions, notes_in, top_n) ==
    LET seqs == all_sequences(sessions)
        total == Len(seqs)
        top == SubSeq(most_common(seqs), 1, Min(top_n, Len(most_common(seqs))))
    IN  IF seqs = <<>>
        THEN [result |-> <<>>,
              notes |-> Append(notes_in, <<"Strategy sequences: no usable data.">>)]
        ELSE [result |-> [k \in DOMAIN top |->
                            [stops |-> Len(top[k].seq) - 1, sequence |-> top[k].seq,
                             frequency_pct |-> Pct(top[k].count, total), n |-> top[k].count]],
              notes |-> notes_in]

\* None, NaN or NaT where a number is expected (a lap, a position, a time):
\* a value no number of the model takes.
NaN == -1000000

\* "SAFETY CAR" in text.upper(), for the categories and messages of the model.
HasSafetyCar(text) ==
    text \in {"SAFETY CAR DEPLOYED", "VIRTUAL SAFETY CAR DEPLOYED", "Safety car in this lap"}

\* The SC laps of a race: the laps of its safety-car messages.
sc_laps_of(rcm) ==
    LET hits == SelectSeq(rcm, LAMBDA msg :
                    /\ (HasSafetyCar(Get(msg, "category", "")) \/ HasSafetyCar(Get(msg, "message", "")))
                    /\ Get(msg, "lap", NaN) # NaN
                    /\ Get(msg, "lap", NaN) > 0)
    IN  [k \in DOMAIN hits |-> hits[k].lap]

\* A slip of the histogram: the share is taken of all the races handed in.
_compute_safety_car_histogram_of_all_races(sessions, total_laps, notes_in, bucket_size) ==
    LET with_rcm == SelectSeq(sessions, LAMBDA race : Get(race, "race_control", <<>>) # <<>>)
        keys == {<<b, Min(b + bucket_size - 1, total_laps)>> :
                    b \in {b \in 1 .. total_laps : (b - 1) % bucket_size = 0}}
        in_bucket(key) ==
            Cardinality({k \in DOMAIN with_rcm :
                            \E i \in DOMAIN sc_laps_of(with_rcm[k].race_control) :
                                /\ key[1] <= sc_laps_of(with_rcm[k].race_control)[i]
                                /\ sc_laps_of(with_rcm[k].race_control)[i] <= key[2]})
    IN  IF with_rcm = <<>>
        THEN [result |-> None,
              notes |-> Append(notes_in,
                               <<"Safety car: no race control message data available.">>)]
        ELSE [result |-> [absent |-> FALSE,
                          histogram |-> [key \in keys |->
                                            RoundDiv(1000 * in_bucket(key), Len(sessions))]],
              notes |-> notes_in]

\* SC probability per lap bucket, in thousandths, keyed by the bucket's
\* first and last lap, or None with a note.
_compute_safety_car_histogram(sessions, total_laps, notes_in, bucket_size) ==
    LET with_rcm == SelectSeq(sessions, LAMBDA race : Get(race, "race_control", <<>>) # <<>>)
        sc_laps_per_race == [k \in DOMAIN with_rcm |-> sc_laps_of(with_rcm[k].race_control)]
        races_with_rcm == Len(with_rcm)
        starts == {b \in 1 .. total_laps : (b - 1) % bucket_size = 0}
        keys == {<<b, Min(b + bucket_size - 1, total_laps)>> : b \in starts}
        in_bucket(key) ==
            Cardinality({k \in DOMAIN sc_laps_per_race :
                            \E i \in DOMAIN sc_laps_per_race[k] :
                                key[1] <= sc_laps_per_race[k][i] /\ sc_laps_per_race[k][i] <= key[2]})
    IN  IF races_with_rcm = 0
        THEN [result |-> None,
              notes |-> Append(notes_in,
                               <<"Safety car: no race control message data available.">>)]
        ELSE [result |-> [absent |-> FALSE,
                          histogram |-> [key \in keys |->
                                            RoundDiv(1000 * in_bucket(key), races_with_rcm)]],
              notes |-> notes_in]

UNDERCUT_GAP_THRESHOLD_S == 300000
UNDERCUT_LAP_WINDOW      == 3

\* all_laps[(all_laps.Driver == d) & (all_laps.LapNumber == lap)]
RowsOf(all_laps, d, lap) ==
    SelectSeq(all_laps.rows, LAMBDA row : row.Driver = d /\ row.LapNumber = lap)

\* What _analyze_pair adds to the counters for one stop pit_a of driver A,
\* pits_b the sorted stops of driver B; gain is the gap appended to
\* undercut_gains, NaN when none is.
analyze_stop(all_laps, d_a, d_b, pit_a, pits_b) ==
    LET nothing == [uc_att |-> 0, uc_suc |-> 0, oc_att |-> 0, oc_suc |-> 0, gain |-> NaN]
        matching_b == SelectSeq(pits_b, LAMBDA pb :
                          1 <= pb - pit_a /\ pb - pit_a <= UNDERCUT_LAP_WINDOW)
        pit_b == matching_b[1]
        pre_lap == pit_a - 1
        laps_a_pre == RowsOf(all_laps, d_a, pre_lap)
        laps_b_pre == RowsOf(all_laps, d_b, pre_lap)
        pos_a_pre == laps_a_pre[1].Position
        pos_b_pre == laps_b_pre[1].Position
        time_a == laps_a_pre[1].LapTimeSec
        time_b == laps_b_pre[1].LapTimeSec
        gap == Abs(time_a - time_b)
        post_lap == pit_b + 2
        laps_a_post == RowsOf(all_laps, d_a, post_lap)
        laps_b_post == RowsOf(all_laps, d_b, post_lap)
        pos_a_post == laps_a_post[1].Position
        pos_b_post == laps_b_post[1].Position
    IN  IF matching_b = <<>> THEN nothing
        ELSE IF pre_lap < 1 THEN nothing
        ELSE IF laps_a_pre = <<>> \/ laps_b_pre = <<>> THEN nothing
        ELSE IF pos_a_pre = NaN \/ pos_b_pre = NaN THEN nothing
        ELSE IF time_a = NaN \/ time_b = NaN THEN nothing
        ELSE IF gap > UNDERCUT_GAP_THRESHOLD_S THEN nothing
        ELSE IF laps_a_post = <<>> \/ laps_b_post = <<>> THEN nothing
        ELSE IF pos_a_post = NaN \/ pos_b_post = NaN THEN nothing
        ELSE IF pos_a_pre > pos_b_pre
        THEN [uc_att |-> 1, uc_suc |-> IF pos_a_post < pos_b_post THEN 1 ELSE 0,
              oc_att |-> 0, oc_suc |-> 0,
              gain |-> IF pos_a_post < pos_b_post THEN gap ELSE NaN]
        ELSE IF pos_b_pre > pos_a_pre
        THEN [uc_att |-> 0, uc_suc |-> 0, oc_att |-> 1,
              oc_suc |-> IF pos_b_post < pos_a_post THEN 1 ELSE 0, gain |-> NaN]
        ELSE nothing

\* The stops of a race looked at by _compute_undercut_overcut, in the order
\* of its loops: driver pairs (i < j) in order of first pit stop, then the
\* stops of the first driver in ascending order.
analyzed_stops(race) ==
    LET all_laps == Get(race, "all_laps", None)
        pit_stops == Get(race, "pit_stops", <<>>)
        first_of == SelectSeq([k \in DOMAIN pit_stops |-> k],
                              LAMBDA k : ~(\E j \in 1 .. k - 1 :
                                              pit_stops[j].driver = pit_stops[k].driver))
        drivers_with_stops == [k \in DOMAIN first_of |-> pit_stops[first_of[k]].driver]
        pits(d) == LET own == SelectSeq(pit_stops, LAMBDA ps : ps.driver = d)
                   IN  Sorted([k \in DOMAIN own |-> own[k].lap])
        n == Len(drivers_with_stops)
        pairs == SelectSeq(CodePairs([k \in 1 .. n |-> k]), LAMBDA p : p[1] < p[2])
        RECURSIVE flat(_)
        flat(k) ==
            IF k > Len(pairs) THEN <<>>
            ELSE LET d_a == drivers_with_stops[pairs[k][1]]
                     d_b == drivers_with_stops[pairs[k][2]]
                 IN  [i \in DOMAIN pits(d_a) |->
                         analyze_stop(all_laps, d_a, d_b, pits(d_a)[i], pits(d_b))]
                     \o flat(k + 1)
    IN  IF all_laps = None THEN <<>>
        ELSE IF all_laps.rows = <<>> THEN <<>>
        ELSE IF "LapTimeSec" \notin all_laps.columns \/ "Position" \notin all_laps.columns
        THEN <<>>
        ELSE IF pit_stops = <<>> THEN <<>>
        ELSE flat(1)

\* np.median(arr) and Series.median(): twice the median.
Median2(arr) ==
    LET a == Sorted(arr)
        n == Len(arr)
    IN  IF n % 2 = 1 THEN 2 * a[(n \div 2) + 1]
        ELSE a[n \div 2] + a[(n \div 2) + 1]

\* round(x, 2) of a time held as twice its value in ticks: the result in ticks.
Round2Of2(x2) == 1000 * RoundDiv(x2, 2000)

RECURSIVE analyzed_in(_)
analyzed_in(sessions) ==
    IF sessions = <<>> THEN <<>>
    ELSE analyzed_stops(Head(sessions)) \o analyzed_in(Tail(sessions))

\* Attempts and success rates (thousandths) of undercuts and overcuts and
\* the typical undercut gain, or None with a note.
_compute_undercut_overcut(sessions, notes_in) ==
    LET outcomes == analyzed_in(sessions)
        sum(f) == SumSeq([k \in DOMAIN outcomes |-> outcomes[k][f]])
        undercut_attempts == sum("uc_att")
        undercut_successes == sum("uc_suc")
        overcut_attempts == sum("oc_att")
        overcut_successes == sum("oc_suc")
        with_gain == SelectSeq(outcomes, LAMBDA o : o.gain # NaN)
        undercut_gains == [k \in DOMAIN with_gain |-> with_gain[k].gain]
        total_attempts == undercut_attempts + overcut_attempts
    IN  IF total_attempts = 0
        THEN [result |-> None,
              notes |-> Append(notes_in,
                               <<"Undercut/overcut: no qualifying driver pairs found">>)]
        ELSE [result |->
                [absent |-> FALSE,
                 undercut_attempts |-> undercut_attempts,
                 undercut_success_rate |->
                    IF undercut_attempts > 0
                    THEN RoundDiv(1000 * undercut_successes, undercut_attempts) ELSE 0,
                 overcut_attempts |-> overcut_attempts,
                 overcut_success_rate |->
                    IF overcut_attempts > 0
                    THEN RoundDiv(1000 * overcut_successes, overcut_attempts) ELSE 0,
                 typical_undercut_gain_s |->
                    IF undercut_gains # <<>> THEN Round2Of2(Median2(undercut_gains)) ELSE 0,
                 notes |-> <<"Computed from", total_attempts, "attempt(s).">>],
              notes |-> notes_in]

\* all_laps.Driver.unique(): the drivers in order of first appearance.
UniqueDrivers(all_laps) ==
    LET firsts == SelectSeq([k \in DOMAIN all_laps.rows |-> k],
                            LAMBDA k : ~(\E j \in 1 .. k - 1 :
                                            all_laps.rows[j].Driver = all_laps.rows[k].Driver))
    IN  [k \in DOMAIN firsts |-> all_laps.rows[firsts[k]].Driver]

\* The rows of a driver by ascending LapNumber (a stable sort).
SortedLaps(all_laps, driver) ==
    LET own == SelectSeq(all_laps.rows, LAMBDA row : row.Driver = driver)
        place(k) == 1 + Cardinality({j \in DOMAIN own :
                                        \/ own[j].LapNumber < own[k].LapNumber
                                        \/ (own[j].LapNumber = own[k].LapNumber /\ j < k)})
    IN  [p \in DOMAIN own |-> own[CHOOSE k \in DOMAIN own : place(k) = p]]

\* The outlap deltas of one driver: each usable outlap time minus the
\* median of the driver's clean laps; twice the value, in ticks.
driver_outlap_deltas(all_laps, driver) ==
    LET d_laps == SortedLaps(all_laps, driver)
        outlaps == SelectSeq(d_laps, LAMBDA row : row.PitOutTime # NaN)
        clean == SelectSeq(d_laps, LAMBDA row :
                    /\ row.PitOutTime = NaN
                    /\ row.PitInTime = NaN
                    /\ row.LapTimeSec # NaN
                    /\ 6000000 <= row.LapTimeSec /\ row.LapTimeSec <= 18000000)
        median_clean == Median2([k \in DOMAIN clean |-> clean[k].LapTimeSec])
        usable == SelectSeq(outlaps, LAMBDA ol :
                    /\ ol.LapTimeSec # NaN
                    /\ 6000000 < ol.LapTimeSec /\ ol.LapTimeSec < 30000000)
    IN  IF clean = <<>> \/ outlaps = <<>> THEN <<>>
        ELSE [k \in DOMAIN usable |-> 2 * usable[k].LapTimeSec - median_clean]

\* The races whose all_laps frame the loop of _compute_outlap_penalty goes
\* through: a frame with rows and the columns LapTimeSec and PitOutTime.
outlap_frames(sessions) ==
    LET usable == SelectSeq(sessions, LAMBDA race :
                    LET all_laps == Get(race, "all_laps", None)
                    IN  /\ all_laps # None
                        /\ all_laps.rows # <<>>
                        /\ "LapTimeSec" \in all_laps.columns
                        /\ "PitOutTime" \in all_laps.columns)
    IN  [k \in DOMAIN usable |-> usable[k].all_laps]

RECURSIVE outlap_deltas(_, _)
outlap_deltas(frames, k) ==
    IF k > Len(frames) THEN <<>>
    ELSE LET drivers == UniqueDrivers(frames[k])
             RECURSIVE of_drivers(_)
             of_drivers(i) ==
                 IF i > Len(drivers) THEN <<>>
                 ELSE driver_outlap_deltas(frames[k], drivers[i]) \o of_drivers(i + 1)
         IN  of_drivers(1) \o outlap_deltas(frames, k + 1)

\* A slip of _compute_outlap_penalty: the absent result is returned without
\* a word in the notes.
_compute_outlap_penalty_without_note(sessions, notes_in) ==
    LET deltas == outlap_deltas(outlap_frames(sessions), 1)
    IN  IF deltas = <<>>
        THEN [result |-> None, notes |-> notes_in]
        ELSE [result |-> [absent |-> FALSE,
                          pit_outlap_penalty_s |-> 1000 * RoundDiv(Median2(deltas), 4000)],
              notes |-> notes_in]

\* The median outlap penalty in ticks, or None with a note. Selecting the
\* column PitInTime of a frame that lacks it raises KeyError.
_compute_outlap_penalty(sessions, notes_in) ==
    LET frames == outlap_frames(sessions)
        deltas == outlap_deltas(frames, 1)
        \* the median of the doubled deltas is twice the median: x4 is four times it
        x4 == Median2(deltas)
    IN  IF \E k \in DOMAIN frames : "PitInTime" \notin frames[k].columns
        THEN [result |-> [raised |-> "KeyError"], notes |-> notes_in]
        ELSE IF deltas = <<>>
        THEN [result |-> None,
              notes |-> Append(notes_in, <<"Outlap penalty: insufficient data to compute.">>)]
        ELSE [result |-> [absent |-> FALSE,
                          pit_outlap_penalty_s |-> 1000 * RoundDiv(x4, 4000)],
              notes |-> notes_in]

-----------------------------------------------------------------------------
(* Specification of the historical sub-computations                        *)

MaxDrivers == 5

St(compound, end_lap) == [compound |-> compound, end_lap |-> end_lap]

\* Stint lists of a driver: no stop, a lap-1 damage stop, and one, two and
\* three stops with first stops on laps 12, 15 and 18.
DriverKinds ==
    { << St("HARD", 57) >>,
      << St("SOFT", 1), St("HARD", 57) >>,
      << St("SOFT", 12), St("HARD", 57) >>,
      << St("MEDIUM", 15), St("HARD", 38), St("SOFT", 57) >>,
      << St("SOFT", 18), St("MEDIUM", 30), St("HARD", 44), St("SOFT", 57) >> }

Race(drivers) == [driver_stints |-> drivers]

\* No race, one race, or two races; a race has at least one driver and a
\* driver at least one stint, as _extract_race_data builds them.
HistInit ==
    /\ pc = "ready"
    /\ \E n \in 0 .. MaxDrivers :
         \E ds \in [1 .. n -> DriverKinds] :
           \E k \in 0 .. n :
              /\ k = 0 => n = 0
              /\ sessions_data =
                    IF n = 0 THEN <<>>
                    ELSE IF k = n THEN << Race(ds) >>
                    ELSE << Race(SubSeq(ds, 1, k)), Race(SubSeq(ds, k + 1, n)) >>
    /\ notes = <<>>
    /\ hist_out = <<>>
    /\ StintIdle /\ SimIdle /\ TempIdle /\ ScoreIdle /\ DegIdle /\ CircuitIdle /\ CacheIdle

CallFirstStopStats ==
    /\ pc = "ready"
    /\ LET r == _compute_first_stop_stats(sessions_data, notes)
       IN  hist_out' = r.result /\ notes' = r.notes
    /\ pc' = "first_stop_stats"
    /\ UNCHANGED <<sessions_data, stint_vars, sim_vars, temp_vars, score_vars, deg_vars, circuit_vars, cache_vars>>

CallStopCountDistribution ==
    /\ pc = "ready"
    /\ LET r == _compute_stop_count_distribution(sessions_data, notes)
       IN  hist_out' = r.result /\ notes' = r.notes
    /\ pc' = "stop_count_distribution"
    /\ UNCHANGED <<sessions_data, stint_vars, sim_vars, temp_vars, score_vars, deg_vars, circuit_vars, cache_vars>>

HistNext == CallFirstStopStats \/ CallStopCountDistribution

SpecHist == HistInit /\ [][HistNext]_vars

\* The drivers of the supplied races, as (race, driver) positions.
DriverPos ==
    UNION {{<<r, d>> : d \in DOMAIN sessions_data[r].driver_stints} : r \in DOMAIN sessions_data}

StintsAt(p) == sessions_data[p[1]].driver_stints[p[2]]

\* The drivers with at least two stints whose first stint ends after lap 1.
QualifyingFirstStops == {p \in DriverPos : Len(StintsAt(p)) >= 2 /\ StintsAt(p)[1].end_lap > 1}

(* C4 as stated: for any non-empty input, one_stop_pct + two_stop_pct +    *)
(* three_plus_pct is 100 within 0.2, and n is the number of drivers        *)
(* counted.                                                                *)
C4_PercentagesSumTo100 ==
    (pc = "stop_count_distribution" /\ DriverPos # {}) =>
        /\ ~hist_out.absent
        /\ Abs(hist_out.one_stop_pct + hist_out.two_stop_pct + hist_out.three_plus_pct - 1000) <= 2
        /\ hist_out.n = Cardinality(DriverPos)

(* C6: _compute_first_stop_stats returns None whenever fewer than 4        *)
(* drivers across the supplied races have at least two stints and a first  *)
(* stint ending after lap 1; single-stint drivers and drivers whose first  *)
(* stint ends on lap <= 1 never count towards the 4.                       *)
C6_AbsentBelowFour ==
    (pc = "first_stop_stats" /\ Cardinality(QualifyingFirstStops) < 4) =>
        hist_out = None

\* At least four drivers pitted, but a lap-1 stop leaves fewer than four
\* qualifying first stops.
C6_Witness ==
    /\ pc = "first_stop_stats"
    /\ Cardinality({p \in DriverPos : Len(StintsAt(p)) >= 2}) >= 4
    /\ Cardinality(QualifyingFirstStops) = 3
    /\ hist_out = None

(* C7: with at least 4 qualifying first stops, _compute_first_stop_stats   *)
(* reports n = the number of qualifying first stops, p25 <= median <= p75, *)
(* and iqr within 0.2 of p75 - p25 (strictly, as the repository's test     *)
(* asserts), all after rounding to one decimal.                            *)
C7_FirstStopStats ==
    (pc = "first_stop_stats" /\ Cardinality(QualifyingFirstStops) >= 4) =>
        /\ ~hist_out.absent
        /\ hist_out.n = Cardinality(QualifyingFirstStops)
        /\ hist_out.p25 <= hist_out.median
        /\ hist_out.median <= hist_out.p75
        /\ Abs(hist_out.iqr - (hist_out.p75 - hist_out.p25)) < 2

\* Four or more qualifying first stops over two races, with distinct
\* quartiles that fall between whole laps.
C7_Witness ==
    /\ pc = "first_stop_stats"
    /\ Len(sessions_data) = 2
    /\ Cardinality(QualifyingFirstStops) >= 4
    /\ ~hist_out.absent
    /\ hist_out.p25 < hist_out.median
    /\ hist_out.median < hist_out.p75
    /\ hist_out.p25 % 10 # 0

-----------------------------------------------------------------------------
(* Specification of the six sub-computations of the historical analyser,  *)
(* each called on the race records _extract_race_data can build (and on    *)
(* the empty list) with a notes list that may already hold a note of the   *)
(* loader.                                                                 *)

MaxExtra == 3
RaceLaps == 10

RaceData(drivers, pit_stops, race_control, all_laps) ==
    [driver_stints |-> drivers, pit_stops |-> pit_stops,
     race_control |-> race_control, all_laps |-> all_laps]

\* The pit stops of a race whose lap frame is lost: none are looked at
\* without the frame, so the list is left out of the model.
StintRace(drivers) == RaceData(drivers, <<>>, <<>>, None)

\* Six drivers with six different compound sequences.
FieldOfSix ==
    << << St("SOFT", 14), St("HARD", 57) >>,
       << St("MEDIUM", 20), St("HARD", 57) >>,
       << St("HARD", 30), St("MEDIUM", 57) >>,
       << St("SOFT", 12), St("MEDIUM", 30), St("HARD", 57) >>,
       << St("MEDIUM", 16), St("SOFT", 35), St("HARD", 57) >>,
       << St("HARD", 33), St("SOFT", 57) >> >>

\* Further drivers: sequences of the field again (one after a lap-1 stop),
\* a driver who never stops, a three-stopper, and two drivers with an
\* UNKNOWN compound.
ExtraKinds ==
    { << St("SOFT", 12), St("HARD", 57) >>,
      << St("SOFT", 1), St("HARD", 57) >>,
      << St("HARD", 33), St("SOFT", 57) >>,
      << St("HARD", 57) >>,
      << St("SOFT", 18), St("MEDIUM", 30), St("HARD", 44), St("SOFT", 57) >>,
      << St("UNKNOWN", 10), St("HARD", 57) >>,
      << St("SOFT", 12), St("UNKNOWN", 30), St("HARD", 57) >> }

\* A lap of a driver as a row of the all_laps frame.
LapRow(driver, lap, position, time, pit_in, pit_out) ==
    [Driver |-> driver, LapNumber |-> lap, Position |-> position,
     LapTimeSec |-> time, PitInTime |-> pit_in, PitOutTime |-> pit_out]

AllColumns == {"Driver", "LapNumber", "LapTime", "Position", "Stint",
               "PitInTime", "PitOutTime", "LapTimeSec"}

\* The frames FastF1 may hand over: all columns, or one of LapTime (and so
\* LapTimeSec), Position and PitOutTime missing.
ColumnSets ==
    { AllColumns, AllColumns \ {"LapTime", "LapTimeSec"},
      AllColumns \ {"Position"}, AllColumns \ {"PitOutTime"} }

\* A duel of two drivers over RaceLaps laps. VER stops on lap sc.pit_a, HAM
\* on lap sc.pit_b; VER runs behind HAM or ahead of him until HAM has
\* stopped, and the order is swapped after it or not; HAM's laps are slower
\* than VER's by sc.gap; an outlap is timed (20 s over a clean lap) or not.
DuelLaps(sc) ==
    LET pit(d) == IF d = "VER" THEN sc.pit_a ELSE sc.pit_b
        before(d) == IF (d = "VER") = sc.a_behind THEN 2 ELSE 1
        position(d, lap) ==
            IF lap <= sc.pit_b \/ ~sc.swap THEN before(d) ELSE 3 - before(d)
        time(d, lap) ==
            IF lap = pit(d) + 1 /\ ~sc.outlap_timed THEN NaN
            ELSE 9000000 + 40000 * (lap % 3)
                 + (IF d = "HAM" THEN sc.gap ELSE 0)
                 + (IF lap = pit(d) + 1 THEN 2000000 ELSE 0)
        row(d, lap) == LapRow(d, lap, position(d, lap), time(d, lap),
                              IF lap = pit(d) THEN 1 ELSE NaN,
                              IF lap = pit(d) + 1 THEN 1 ELSE NaN)
    IN  [columns |-> sc.columns,
         rows |-> [k \in 1 .. 2 * RaceLaps |->
                      IF k <= RaceLaps THEN row("VER", k) ELSE row("HAM", k - RaceLaps)]]

\* The race control messages of a race: none, a safety car on lap 3, a
\* yellow flag only, or a safety car announced before the start (lap 0).
RaceControlSets ==
    { <<>>,
      << [lap |-> 3, category |-> "SafetyCar", message |-> "SAFETY CAR DEPLOYED"],
         [lap |-> 7, category |-> "Flag", message |-> "YELLOW IN TRACK SECTOR 2"] >>,
      << [lap |-> 7, category |-> "Flag", message |-> "YELLOW IN TRACK SECTOR 2"] >>,
      << [lap |-> 0, category |-> "SafetyCar", message |-> "VIRTUAL SAFETY CAR DEPLOYED"] >> }

Duels ==
    [pit_a : {3, 4, 7}, pit_b : {2, 5, 6, 9}, a_behind : BOOLEAN, swap : BOOLEAN,
     gap : {120000, 400000}, outlap_timed : BOOLEAN, columns : ColumnSets]

\* The record _extract_race_data builds of a duel.
DuelRace(sc, race_control, with_laps) ==
    RaceData(<< << St("SOFT", sc.pit_a), St("HARD", RaceLaps) >>,
                << St("MEDIUM", sc.pit_b), St("HARD", RaceLaps) >> >>,
             << [driver |-> "VER", lap |-> sc.pit_a], [driver |-> "HAM", lap |-> sc.pit_b] >>,
             race_control,
             IF with_laps THEN DuelLaps(sc) ELSE None)

\* A second race of the circuit: a successful undercut with a safety car.
EarlierDuel ==
    DuelRace([pit_a |-> 4, pit_b |-> 5, a_behind |-> TRUE, swap |-> TRUE,
              gap |-> 200000, outlap_timed |-> TRUE, columns |-> AllColumns],
             << [lap |-> 6, category |-> "Other", message |-> "Safety car in this lap"] >>,
             TRUE)

LoaderNotes == { <<>>, << <<"2021: no usable lap data.">> >> }

AnalyserInit ==
    /\ pc = "ready"
    /\ \/ \E with_field \in BOOLEAN :
           \E n \in 0 .. MaxExtra :
             \E ds \in [1 .. n -> ExtraKinds] :
               \E shape \in {"none", "one", "field first", "field last"} :
                  /\ shape = "none" => (n = 0 /\ ~with_field)
                  /\ shape # "none" => (n > 0 \/ with_field)
                  /\ shape \in {"field first", "field last"} => (n > 0 /\ with_field)
                  /\ sessions_data =
                        CASE shape = "none" -> <<>>
                          [] shape = "one" ->
                                << StintRace((IF with_field THEN FieldOfSix ELSE <<>>) \o ds) >>
                          [] shape = "field first" -> << StintRace(FieldOfSix), StintRace(ds) >>
                          [] shape = "field last" -> << StintRace(ds), StintRace(FieldOfSix) >>
       \/ \E sc \in Duels :
           \E race_control \in RaceControlSets :
             \E with_laps \in BOOLEAN :
               \E second \in BOOLEAN :
                  /\ ~with_laps => sc.columns = AllColumns
                  /\ sessions_data =
                        << DuelRace(sc, race_control, with_laps) >>
                        \o (IF second THEN << EarlierDuel >> ELSE <<>>)
    /\ notes \in LoaderNotes
    /\ hist_out = <<>>
    /\ StintIdle /\ SimIdle /\ TempIdle /\ ScoreIdle /\ DegIdle /\ CircuitIdle /\ CacheIdle

CallCommonSequences ==
    /\ pc = "ready"
    /\ LET r == _compute_common_sequences(sessions_data, notes, 5)
       IN  hist_out' = r.result /\ notes' = r.notes
    /\ pc' = "common_sequences"
    /\ UNCHANGED <<sessions_data, stint_vars, sim_vars, temp_vars, score_vars, deg_vars, circuit_vars, cache_vars>>

CallSafetyCarHistogram ==
    /\ pc = "ready"
    /\ \E total_laps \in {RaceLaps, 57} :
         LET r == _compute_safety_car_histogram(sessions_data, total_laps, notes, 5)
         IN  hist_out' = r.result /\ notes' = r.notes
    /\ pc' = "safety_car_histogram"
    /\ UNCHANGED <<sessions_data, stint_vars, sim_vars, temp_vars, score_vars, deg_vars, circuit_vars, cache_vars>>

CallUndercutOvercut ==
    /\ pc = "ready"
    /\ LET r == _compute_undercut_overcut(sessions_data, notes)
       IN  hist_out' = r.result /\ notes' = r.notes
    /\ pc' = "undercut_overcut"
    /\ UNCHANGED <<sessions_data, stint_vars, sim_vars, temp_vars, score_vars, deg_vars, circuit_vars, cache_vars>>

CallOutlapPenalty ==
    /\ pc = "ready"
    /\ LET r == _compute_outlap_penalty(sessions_data, notes)
       IN  hist_out' = r.result /\ notes' = r.notes
    /\ pc' = "outlap_penalty"
    /\ UNCHANGED <<sessions_data, stint_vars, sim_vars, temp_vars, score_vars, deg_vars, circuit_vars, cache_vars>>

AnalyserNext ==
    \/ CallFirstStopStats
    \/ CallStopCountDistribution
    \/ CallCommonSequences
    \/ CallSafetyCarHistogram
    \/ CallUndercutOvercut
    \/ CallOutlapPenalty

SpecAnalyser == AnalyserInit /\ [][AnalyserNext]_vars


\* The called sub-computation has too little to work with: fewer than four
\* first stops, no driver, no driver with known compounds throughout, no
\* race control messages, no lap frame with times and positions next to
\* pit stops, no lap frame with times and outlaps.
InsufficientData(called) ==
    CASE called = "first_stop_stats" -> Cardinality(QualifyingFirstStops) < 4
      [] called = "stop_count_distribution" -> DriverPos = {}
      [] called = "common_sequences" ->
            \A p \in DriverPos : \E i \in DOMAIN StintsAt(p) : StintsAt(p)[i].compound = "UNKNOWN"
      [] called = "safety_car_histogram" ->
            \A r \in DOMAIN sessions_data : sessions_data[r].race_control = <<>>
      [] called = "undercut_overcut" ->
            \A r \in DOMAIN sessions_data :
                \/ sessions_data[r].all_laps = None
                \/ sessions_data[r].pit_stops = <<>>
                \/ ~({"LapTimeSec", "Position"} \subseteq sessions_data[r].all_laps.columns)
      [] called = "outlap_penalty" ->
            \A r \in DOMAIN sessions_data :
                \/ sessions_data[r].all_laps = None
                \/ ~({"LapTimeSec", "PitOutTime"} \subseteq sessions_data[r].all_laps.columns)

\* The absent value of the called sub-computation: the empty list for the
\* sequences, None for the others.
IsAbsent(called, result) ==
    IF called = "common_sequences" THEN result = <<>> ELSE result = None

HasRaised(called, result) ==
    called # "common_sequences" /\ "raised" \in DOMAIN result

C16_Call ==
    (pc = "ready" /\ pc' # "ready") =>
        /\ ~HasRaised(pc', hist_out')
        /\ InsufficientData(pc') => IsAbsent(pc', hist_out')
        /\ IsAbsent(pc', hist_out') =>
              /\ Len(notes') = Len(notes) + 1
              /\ SubSeq(notes', 1, Len(notes)) = notes
        /\ ~IsAbsent(pc', hist_out') => notes' = notes

IncludedDrivers ==
    {p \in DriverPos : \A i \in DOMAIN StintsAt(p) : StintsAt(p)[i].compound # "UNKNOWN"}

SequenceOf(p) == [i \in DOMAIN StintsAt(p) |-> StintsAt(p)[i].compound]

C25_Original ==
    pc = "common_sequences" =>
        \A k \in DOMAIN hist_out :
            hist_out[k].frequency_pct = Pct(hist_out[k].n, Cardinality(DriverPos))

(* C25: frequency_pct of each reported sequence is 100 x n divided by the  *)
(* number of drivers that were not skipped, those without an UNKNOWN       *)
(* compound in any stint, rounded to one decimal; the shares reported      *)
(* never add up to more than 100 percent beyond rounding.                  *)
C25_FrequencyOfIncluded ==
    pc = "common_sequences" =>
        /\ \A k \in DOMAIN hist_out :
              /\ hist_out[k].frequency_pct =
                    Pct(hist_out[k].n, Cardinality(IncludedDrivers))
              /\ 0 < hist_out[k].frequency_pct /\ hist_out[k].frequency_pct <= 1000
        /\ SumSeq([k \in DOMAIN hist_out |-> hist_out[k].n]) <= Cardinality(IncludedDrivers)

\* A driver with an UNKNOWN compound is skipped and the share of the first
\* sequence is that among the others: it differs from the share of all.
C25_Witness ==
    /\ pc = "common_sequences"
    /\ hist_out # <<>>
    /\ IncludedDrivers # DriverPos
    /\ hist_out[1].n > 1
    /\ hist_out[1].frequency_pct # Pct(hist_out[1].n, Cardinality(DriverPos))
    /\ hist_out[1].frequency_pct < 1000

-----------------------------------------------------------------------------
(* compute_historical_profile: utils/historical_analysis.py                *)
(* What FastF1 yields for a year is a session: get_session or load raises, *)
(* or the session holds laps, None or a frame. A frame is held as its      *)
(* columns and the race record that the extraction loops build of its      *)
(* rows.                                                                   *)

\* A year's session: raises is whether get_session or load throws.
Session(raises, laps, race_control) ==
    [raises |-> raises, laps |-> laps, race_control_messages |-> race_control]

\* Extraction of a loaded session: None without laps or without any driver
\* stint; laps["PitInTime"] throws KeyError when the column is missing.
_extract_race_data(session, year) ==
    IF session.laps = None THEN [raised |-> FALSE, race_data |-> None]
    ELSE IF session.laps.race.driver_stints = <<>>
    THEN [raised |-> FALSE, race_data |-> None]
    ELSE IF "PitInTime" \notin session.laps.columns
    THEN [raised |-> TRUE, race_data |-> None]
    ELSE [raised |-> FALSE,
          race_data |-> [year |-> year,
                         driver_stints |-> session.laps.race.driver_stints,
                         pit_stops |-> session.laps.race.pit_stops,
                         race_control |-> session.race_control_messages,
                         all_laps |-> session.laps.race.all_laps]]

\* One round of "for year in years": the race is appended, or one note is.
load_year(session, year, loaded) ==
    IF session.raises
    THEN [sessions_data |-> loaded.sessions_data,
          notes |-> Append(loaded.notes, <<"Skipped", year>>)]
    ELSE LET extracted == _extract_race_data(session, year)
         IN  IF extracted.raised
             THEN [sessions_data |-> loaded.sessions_data,
                   notes |-> Append(loaded.notes, <<"Skipped", year>>)]
             ELSE IF extracted.race_data # None
             THEN [sessions_data |-> Append(loaded.sessions_data, extracted.race_data),
                   notes |-> loaded.notes]
             ELSE [sessions_data |-> loaded.sessions_data,
                   notes |-> Append(loaded.notes, <<"no usable lap data", year>>)]

\* A slip of the loop: the first year that cannot be used ends it.
RECURSIVE load_years_until_failure(_, _, _, _)
load_years_until_failure(k, years, sessions, loaded) ==
    IF k > Len(years) \/ loaded.notes # <<>> THEN loaded
    ELSE load_years_until_failure(k + 1, years, sessions,
                                  load_year(sessions[k], years[k], loaded))

\* for year in years: from the k-th year on.
RECURSIVE load_years(_, _, _, _)
load_years(k, years, sessions, loaded) ==
    IF k > Len(years) THEN loaded
    ELSE load_years(k + 1, years, sessions, load_year(sessions[k], years[k], loaded))

\* The six sub-computations in the order they are called.
SubComputations ==
    <<"first_stop_lap", "stop_count_distribution", "common_strategy_sequences",
      "safety_car_lap_histogram", "undercut_overcut", "warmup_traffic">>

sub_computation(name, sessions, total_laps, notes_in) ==
    CASE name = "first_stop_lap" -> _compute_first_stop_stats(sessions, notes_in)
      [] name = "stop_count_distribution" -> _compute_stop_count_distribution(sessions, notes_in)
      [] name = "common_strategy_sequences" -> _compute_common_sequences(sessions, notes_in, 5)
      [] name = "safety_car_lap_histogram" ->
            _compute_safety_car_histogram(sessions, total_laps, notes_in, 5)
      [] name = "undercut_overcut" -> _compute_undercut_overcut(sessions, notes_in)
      [] name = "warmup_traffic" -> _compute_outlap_penalty(sessions, notes_in)

\* What a sub-computation leaves: its result and the notes list.
record_result(done, r) == [results |-> Append(done.results, r.result), notes |-> r.notes]

\* The sub-computations from the k-th on, each given the notes list the
\* ones before it have appended to.
RECURSIVE run_sub_computations(_, _, _, _)
run_sub_computations(k, sessions, total_laps, done) ==
    IF k > Len(SubComputations) THEN done
    ELSE run_sub_computations(k + 1, sessions, total_laps,
            record_result(done, sub_computation(SubComputations[k], sessions, total_laps,
                                                done.notes)))

\* The dict returned when no race was loaded.
empty_profile(years, notes_in) ==
    [seasons_used |-> {years[k] : k \in DOMAIN years},
     races_used |-> 0,
     common_strategy_sequences |-> <<>>,
     notes |-> Append(notes_in, <<"No historical races loaded. Profile is empty.">>)]

\* The dict returned over the loaded races and the sub-computations' results.
full_profile(sessions, done) ==
    [f \in {"seasons_used", "races_used", "notes"}
           \cup {SubComputations[k] : k \in DOMAIN SubComputations} |->
        CASE f = "seasons_used" -> {sessions[k].year : k \in DOMAIN sessions}
          [] f = "races_used" -> Len(sessions)
          [] f = "notes" ->
                Append(done.notes, <<"Computed from", Len(sessions), "race(s)">>)
          [] OTHER ->
                done.results[CHOOSE k \in DOMAIN SubComputations : SubComputations[k] = f]]

\* The races loaded and the profile over them; seasons_used is held as a set.
profile_of(years, total_laps, loaded) ==
    [sessions_data |-> loaded.sessions_data,
     profile |->
        IF Len(loaded.sessions_data) = 0 THEN empty_profile(years, loaded.notes)
        ELSE full_profile(loaded.sessions_data,
                          run_sub_computations(1, loaded.sessions_data, total_laps,
                                               [results |-> <<>>, notes |-> loaded.notes]))]

\* A slip of compute_historical_profile, made of the slip of its loop.
compute_historical_profile_until_failure(years, info, sessions) ==
    profile_of(years, Get(info, "laps", 58),
               load_years_until_failure(1, years, sessions,
                                        [sessions_data |-> <<>>, notes |-> <<>>]))

compute_historical_profile(years, info, sessions) ==
    profile_of(years, Get(info, "laps", 58),
               load_years(1, years, sessions, [sessions_data |-> <<>>, notes |-> <<>>]))

-----------------------------------------------------------------------------
(* Specification of compute_historical_profile                             *)

MaxYears == 3

\* The years requested: the first n seasons from 2021 on.
YearsFrom2021(n) == [k \in 1 .. n |-> 2020 + k]

\* A laps frame with all its columns, as the race record extracted from it.
Frame(race) == [columns |-> AllColumns \ {"LapTimeSec"}, race |-> race]

\* The duel of the loaded races: VER stops on lap 4 behind HAM, who stops
\* on lap 5 and comes out behind.
ProfileDuel ==
    DuelRace([pit_a |-> 4, pit_b |-> 5, a_behind |-> TRUE, swap |-> TRUE,
              gap |-> 200000, outlap_timed |-> TRUE, columns |-> AllColumns],
             <<>>, TRUE)

\* What a year can yield: a session that does not load, one without laps,
\* one whose laps hold no stint, one whose frame lacks PitInTime, the field
\* of six without race control messages, and the duel with each kind of
\* race control messages or with a safety car on lap 6.
SessionKinds ==
    { Session(TRUE, None, <<>>),
      Session(FALSE, None, <<>>),
      Session(FALSE, Frame(StintRace(<<>>)), <<>>),
      Session(FALSE, [columns |-> AllColumns \ {"LapTimeSec", "PitInTime"},
                      race |-> StintRace(FieldOfSix)], <<>>),
      Session(FALSE, Frame(StintRace(FieldOfSix)), <<>>) }
    \cup { Session(FALSE, Frame(ProfileDuel), rc) :
             rc \in RaceControlSets
                    \cup { << [lap |-> 6, category |-> "Other",
                               message |-> "Safety car in this lap"] >> } }

\* circuit_info with the laps of the circuit, or without them (58 is used).
CircuitInfos ==
    { [fastf1_name |-> "Bahrain", laps |-> RaceLaps], [fastf1_name |-> "Bahrain"] }

ProfileInit ==
    /\ pc = "ready"
    /\ circuit_info \in CircuitInfos
    /\ \E n \in 0 .. MaxYears : fastf1_sessions \in [1 .. n -> SessionKinds]
    /\ HistIdle
    /\ StintIdle /\ SimIdle /\ TempIdle /\ ScoreIdle /\ DegIdle /\ CacheIdle

CallComputeHistoricalProfile ==
    /\ pc = "ready"
    /\ \E r \in {compute_historical_profile(YearsFrom2021(Len(fastf1_sessions)),
                                            circuit_info, fastf1_sessions)} :
          /\ hist_out' = r.profile
          /\ notes' = r.profile.notes
          /\ sessions_data' = r.sessions_data
    /\ pc' = "compute_historical_profile"
    /\ UNCHANGED <<circuit_vars, stint_vars, sim_vars, temp_vars, score_vars, deg_vars, cache_vars>>

ProfileNext == CallComputeHistoricalProfile

SpecProfile == ProfileInit /\ [][ProfileNext]_vars

\* The races loaded that have race control messages, and those among them
\* with a safety-car message on a lap from lo to hi.
RacesWithRcm == {k \in DOMAIN sessions_data : sessions_data[k].race_control # <<>>}

RacesWithSafetyCar(lo, hi) ==
    {k \in DOMAIN sessions_data :
        \E i \in DOMAIN sessions_data[k].race_control :
            LET msg == sessions_data[k].race_control[i]
            IN  /\ HasSafetyCar(msg.category) \/ HasSafetyCar(msg.message)
                /\ lo <= msg.lap /\ msg.lap <= hi}

\* The histogram of the returned profile is there: races were loaded and
\* the sub-computation did not return None.
HistogramReturned ==
    /\ pc = "compute_historical_profile"
    /\ hist_out.races_used > 0
    /\ hist_out.safety_car_lap_histogram # None

\* The buckets are the windows 1-5, 6-10, ... of laps 1 .. total_laps, the
\* last one ending at total_laps: every lap is in exactly one of them.
BucketsPartition(histogram, total_laps) ==
    /\ \A key \in DOMAIN histogram :
          /\ key[1] \in 1 .. total_laps /\ (key[1] - 1) % 5 = 0
          /\ key[2] = Min(key[1] + 4, total_laps)
    /\ \A lap \in 1 .. total_laps :
          Cardinality({key \in DOMAIN histogram : key[1] <= lap /\ lap <= key[2]}) = 1

(* C24 as stated: the buckets are disjoint 5-lap windows covering laps     *)
(* 1 .. total_laps, and each bucket's probability is the number of races   *)
(* with a safety-car lap inside the window divided by the number of races  *)
(* analysed.                                                               *)
C24_Original ==
    HistogramReturned =>
        LET histogram == hist_out.safety_car_lap_histogram.histogram
        IN  /\ BucketsPartition(histogram, Get(circuit_info, "laps", 58))
            /\ \A key \in DOMAIN histogram :
                  histogram[key] * hist_out.races_used =
                      1000 * Cardinality(RacesWithSafetyCar(key[1], key[2]))

(* C24: the buckets are disjoint 5-lap windows covering laps               *)
(* 1 .. total_laps, the last truncated at total_laps, so that every lap    *)
(* is in exactly one bucket; each bucket's probability is the number of    *)
(* races with a safety-car message lap inside the window divided by the    *)
(* number of races that have race control messages, rounded to 3           *)
(* decimals, and lies in [0, 1]; the histogram is absent exactly when no   *)
(* race has race control messages.                                         *)
C24_SafetyCarHistogram ==
    (pc = "compute_historical_profile" /\ hist_out.races_used > 0) =>
        /\ hist_out.safety_car_lap_histogram = None <=> RacesWithRcm = {}
        /\ HistogramReturned =>
              LET histogram == hist_out.safety_car_lap_histogram.histogram
              IN  /\ BucketsPartition(histogram, Get(circuit_info, "laps", 58))
                  /\ \A key \in DOMAIN histogram :
                        /\ histogram[key] =
                              RoundDiv(1000 * Cardinality(RacesWithSafetyCar(key[1], key[2])),
                                       Cardinality(RacesWithRcm))
                        /\ 0 <= histogram[key] /\ histogram[key] <= 1000

\* Three races with race control messages, one of them with a safety car in
\* the first window, over 58 laps: 0.333 for laps 1-5 and a last bucket of
\* laps 56-58.
C24_Witness ==
    /\ HistogramReturned
    /\ Cardinality(RacesWithRcm) = 3
    /\ hist_out.safety_car_lap_histogram.histogram[<<1, 5>>] = 333
    /\ <<56, 58>> \in DOMAIN hist_out.safety_car_lap_histogram.histogram

\* The requested years (by position) that yield no race: the session
\* does not load, holds no laps or no stint, or its frame cannot be read.
UnusableYears ==
    {k \in DOMAIN fastf1_sessions :
        \/ fastf1_sessions[k].raises
        \/ fastf1_sessions[k].laps = None
        \/ /\ ~fastf1_sessions[k].raises /\ fastf1_sessions[k].laps # None
           /\ \/ fastf1_sessions[k].laps.race.driver_stints = <<>>
              \/ "PitInTime" \notin fastf1_sessions[k].laps.columns}

\* The notes of the profile that name the k-th requested year.
NotesOfYear(k) ==
    {i \in DOMAIN hist_out.notes :
        /\ hist_out.notes[i][1] \in {"Skipped", "no usable lap data"}
        /\ hist_out.notes[i][2] = 2020 + k}

(* C28: compute_historical_profile goes through every requested year: a    *)
(* year whose session fails to load or has no usable lap data adds exactly *)
(* one note and no race, the years after it are still processed,           *)
(* races_used plus the number of skipped years is the number of requested  *)
(* years, and the profile returned always has a non-empty notes list, with *)
(* races_used = 0 and no sequences when no year was loaded.                *)
C28_EveryYearProcessed ==
    pc = "compute_historical_profile" =>
        /\ hist_out.races_used = Len(sessions_data)
        /\ hist_out.races_used + Cardinality(UnusableYears) = Len(fastf1_sessions)
        /\ {sessions_data[i].year : i \in DOMAIN sessions_data}
              = {2020 + k : k \in DOMAIN fastf1_sessions \ UnusableYears}
        /\ \A k \in DOMAIN fastf1_sessions :
              Cardinality(NotesOfYear(k)) = IF k \in UnusableYears THEN 1 ELSE 0
        /\ hist_out.notes # <<>>
        /\ UnusableYears = DOMAIN fastf1_sessions =>
              /\ hist_out.races_used = 0
              /\ hist_out.common_strategy_sequences = <<>>
              /\ Len(hist_out.notes) = Len(fastf1_sessions) + 1

\* The first year does not load, the second has no laps, and the third is
\* loaded all the same: one race, a note for each of the two years and the
\* closing note.
C28_Witness ==
    /\ pc = "compute_historical_profile"
    /\ Len(fastf1_sessions) = 3
    /\ fastf1_sessions[1].raises
    /\ ~fastf1_sessions[2].raises /\ fastf1_sessions[2].laps = None
    /\ hist_out.races_used = 1
    /\ sessions_data[1].year = 2023
    /\ hist_out.notes[1] = <<"Skipped", 2021>>
    /\ hist_out.notes[2] = <<"no usable lap data", 2022>>
    /\ Len(hist_out.notes) >= 3

-----------------------------------------------------------------------------
(* Temperature adjuster: utils/fastf1_helpers.py                           *)
(* A multiplier is a fraction num/200000: the base multiplier is held in   *)
(* ten-thousandths and the sensitivity in twentieths. In a degradation     *)
(* table avg_deg_s_per_lap is in units of 0.0001 s and                     *)
(* cliff_rate_s_per_lap2 in units of 0.00001 s, the resolutions round()    *)
(* gives them; temp_multiplier is in thousandths. The temperatures and     *)
(* entries of the model are those for which this arithmetic and the        *)
(* floating-point arithmetic of the source give the same table.            *)

\* (track_temp_c / 25.0) ** 1.2 in ten-thousandths, for the temperatures of the model.
BaseMult ==
    [t \in {17, 24, 25, 28, 32, 39} |->
        CASE t = 17 -> 6295
          [] t = 24 -> 9522
          [] t = 25 -> 10000
          [] t = 28 -> 11457
          [] t = 32 -> 13448
          [] t = 39 -> 17051]

\* int(code[1]) if the code is C followed by digits, else 3.
CodeNum(code) ==
    CASE code = "C1" -> 1 [] code = "C2" -> 2 [] code = "C3" -> 3
      [] code = "C4" -> 4 [] code = "C5" -> 5 [] OTHER -> 3

\* A slip of the sensitivity: harder compounds made the more sensitive ones.
Sensitivity20_reversed(code_num) == 20 + (3 - code_num)

\* 1.0 + 0.05 * (code_num - 3), in twentieths.
Sensitivity20(code_num) == 20 + (code_num - 3)

\* int(x / max(sqrt(num/200000), 0.5)) for x >= 0.
DivBySqrtMult(x, num) ==
    IF 4 * num < 200000 THEN 2 * x
    ELSE CHOOSE k \in 0 .. 2 * x :
            /\ k * k * num <= x * x * 200000
            /\ (k + 1) * (k + 1) * num > x * x * 200000

\* int(x / max(num/200000, 0.5)) for x >= 0.
DivByMult(x, num) ==
    IF 2 * num < 200000 THEN 2 * x ELSE FloorDiv(x * 200000, num)

\* round(x * num / 200000) for x >= 0, the product taken in two parts so
\* that it stays within the integers of the model checker.
RoundByMult(x, num) ==
    LET hi   == x * (num \div 1000)
        lo   == x * (num % 1000)
        rest == 1000 * (hi % 200) + lo
        q    == (hi \div 200) + (rest \div 200000)
        r    == rest % 200000
    IN  IF 2 * r < 200000 THEN q
        ELSE IF 2 * r > 200000 THEN q + 1
        ELSE IF q % 2 = 0 THEN q ELSE q + 1

\* Degradation rates adjusted for track temperature: a new table.
apply_temp_adjustment(table, temp) ==
    LET base_mult == BaseMult[temp]
    IN  [code \in DOMAIN table |->
            LET data == table[code]
                code_num == CodeNum(code)
                mult == base_mult * Sensitivity20(code_num)
                cliff_onset == Get(data, "cliff_onset_lap", 20)
                cliff_rate == Get(data, "cliff_rate_s_per_lap2", 1500)
            IN  [f \in (DOMAIN data) \cup {"avg_deg_s_per_lap", "cliff_onset_lap",
                                            "cliff_rate_s_per_lap2", "typical_max_stint_laps",
                                            "temp_multiplier"} |->
                    CASE f = "avg_deg_s_per_lap" ->
                            RoundByMult(data.avg_deg_s_per_lap, mult)
                      [] f = "cliff_onset_lap" -> Max(5, DivBySqrtMult(cliff_onset, mult))
                      [] f = "cliff_rate_s_per_lap2" -> RoundByMult(cliff_rate, mult)
                      [] f = "typical_max_stint_laps" ->
                            Max(5, DivByMult(data.typical_max_stint_laps, mult))
                      [] f = "temp_multiplier" -> RoundDiv(mult, 200)
                      [] OTHER -> data[f]]]

-----------------------------------------------------------------------------
(* Specification of the temperature adjuster                               *)

TempCodes == {"C1", "C2", "C3", "C4", "C5", "HARD"}
TempSet   == DOMAIN BaseMult

\* Entries of a degradation table: the fallback entries of C1 and C5 and
\* one without the cliff fields, for which the defaults apply.
TempEntries ==
    { [avg_deg_s_per_lap |-> 300, cliff_onset_lap |-> 35, cliff_rate_s_per_lap2 |-> 600,
       typical_max_stint_laps |-> 45, base_pace_offset |-> 200000],
      [avg_deg_s_per_lap |-> 1400, cliff_onset_lap |-> 12, cliff_rate_s_per_lap2 |-> 3500,
       typical_max_stint_laps |-> 18, base_pace_offset |-> 0],
      [avg_deg_s_per_lap |-> 301, typical_max_stint_laps |-> 45,
       base_pace_offset |-> 130000] }

TempInit ==
    /\ pc = "ready"
    /\ degradation \in [TempCodes -> TempEntries]
    /\ track_temp_c \in TempSet
    /\ adjusted = <<>>
    /\ StintIdle /\ SimIdle /\ HistIdle /\ ScoreIdle /\ DegIdle /\ CircuitIdle /\ CacheIdle

CallApplyTempAdjustment ==
    /\ pc = "ready"
    /\ adjusted' = apply_temp_adjustment(degradation, track_temp_c)
    /\ pc' = "temp_adjusted"
    /\ UNCHANGED <<degradation, track_temp_c, stint_vars, sim_vars, hist_vars, score_vars, deg_vars, circuit_vars, cache_vars>>

TempNext == CallApplyTempAdjustment

SpecTemp == TempInit /\ [][TempNext]_vars

-----------------------------------------------------------------------------
(* Degradation computation: utils/fastf1_helpers.py                        *)
(* stints_df is held as the list of its stints: a stint is the rows of one *)
(* (year, driver, stint_number), lap_in_stint being the index into its     *)
(* lap_times, as load_stints_for_circuit numbers them. Lap times are in    *)
(* hundredths of a second. A table entry is in the units of the            *)
(* temperature adjuster, avg_reference_lap_s and base_pace_offset in       *)
(* ticks. Slopes and residuals are fractions, held as a numerator over a   *)
(* denominator named where they are computed.                              *)

FALLBACK_COMPOUND_DATA ==
    [code \in {"C1", "C2", "C3", "C4", "C5"} |->
        CASE code = "C1" ->
                [avg_deg_s_per_lap |-> 300, cliff_onset_lap |-> 35,
                 cliff_rate_s_per_lap2 |-> 600, typical_max_stint_laps |-> 45,
                 avg_reference_lap_s |-> 8400000, base_pace_offset |-> 200000]
          [] code = "C2" ->
                [avg_deg_s_per_lap |-> 450, cliff_onset_lap |-> 30,
                 cliff_rate_s_per_lap2 |-> 800, typical_max_stint_laps |-> 40,
                 avg_reference_lap_s |-> 8330000, base_pace_offset |-> 130000]
          [] code = "C3" ->
                [avg_deg_s_per_lap |-> 650, cliff_onset_lap |-> 24,
                 cliff_rate_s_per_lap2 |-> 1200, typical_max_stint_laps |-> 32,
                 avg_reference_lap_s |-> 8270000, base_pace_offset |-> 70000]
          [] code = "C4" ->
                [avg_deg_s_per_lap |-> 950, cliff_onset_lap |-> 18,
                 cliff_rate_s_per_lap2 |-> 2500, typical_max_stint_laps |-> 25,
                 avg_reference_lap_s |-> 8220000, base_pace_offset |-> 20000]
          [] code = "C5" ->
                [avg_deg_s_per_lap |-> 1400, cliff_onset_lap |-> 12,
                 cliff_rate_s_per_lap2 |-> 3500, typical_max_stint_laps |-> 18,
                 avg_reference_lap_s |-> 8200000, base_pace_offset |-> 0]]

\* stint[stint.lap_in_stint > 1]: the lap times from the second lap on.
stint_clean(stint) == SubSeq(stint.lap_times, 2, Len(stint.lap_times))

\* deltas: the clean lap times minus the first of them; deltas[j] belongs
\* to laps_from_ref = j - 1.
deltas_of(stint) ==
    LET clean == stint_clean(stint)
    IN  [j \in DOMAIN clean |-> clean[j] - clean[1]]

\* Every slope of a stint of up to 9 laps is a multiple of 1/840.
SlopeDen == 840

\* np.polyfit(laps_from_ref, deltas, 1)[0] for laps_from_ref = 0 .. m-1, the
\* least-squares slope 6 * sum((2x - (m-1)) * y) / (m * (m*m - 1)), times
\* SlopeDen.
polyfit_slope(deltas) ==
    LET m == Len(deltas)
        weighted == SumSeq([j \in 1 .. m |-> (2 * (j - 1) - (m - 1)) * deltas[j]])
    IN  (weighted * SlopeDen) \div ((m * (m * m - 1)) \div 6)

\* A slip of the clamp: a falling stint keeps its negative slope.
clamped_slope_left_negative(deltas) == polyfit_slope(deltas)

\* max(slope, 0.0), times SlopeDen.
clamped_slope(deltas) == Max(polyfit_slope(deltas), 0)

\* round(n / d, digits) for n >= 0 and d > 0, by long division.
RECURSIVE RoundScaled(_, _, _)
RoundScaled(n, d, digits) ==
    IF digits = 0 THEN RoundDiv(n, d)
    ELSE (n \div d) * (10 ^ digits) + RoundScaled((n % d) * 10, d, digits - 1)

\* The stints of one compound code that the loop keeps: those with at
\* least two laps after the first.
usable_stints(stints_df, code) ==
    SelectSeq(stints_df, LAMBDA stint :
                stint.compound_code = code /\ ~(Len(stint_clean(stint)) < 2))

RECURSIVE GCD(_, _)
GCD(a, b) == IF b = 0 THEN a ELSE GCD(b, a % b)

\* The least common multiple of 1 .. n.
RECURSIVE LcmUpTo(_)
LcmUpTo(n) == IF n <= 1 THEN 1 ELSE (LcmUpTo(n - 1) * n) \div GCD(LcmUpTo(n - 1), n)

\* The heuristic cliff of a compound: max(8, 40 - code_num * 6) and
\* round(0.005 + code_num * 0.006, 5).
heuristic_cliff(compound_code) ==
    LET code_num == CodeNum(compound_code)
    IN  [onset |-> Max(8, 40 - code_num * 6), rate |-> 500 + code_num * 600]

\* A slip of _detect_cliff: with fewer than two bins from the onset on, the
\* heuristic onset is returned with the heuristic rate.
_detect_cliff_heuristic_onset(stint_curves, deg_num, deg_den, typical_max, compound_code) ==
    LET heuristic == heuristic_cliff(compound_code)
        max_lap == LET tops == {Len(stint_curves[c]) - 1 : c \in DOMAIN stint_curves}
                   IN  CHOOSE t \in tops : \A u \in tops : u <= t
        in_bin(b) == {c \in DOMAIN stint_curves : Len(stint_curves[c]) > b}
        bin_sum(b) == SumSeq([c \in DOMAIN stint_curves |->
                                IF c \in in_bin(b) THEN stint_curves[c][b + 1] ELSE 0])
        over == {b \in 0 .. max_lap :
                    /\ bin_sum(b) * deg_den - deg_num * b * Cardinality(in_bin(b))
                          > 15 * deg_den * Cardinality(in_bin(b))
                    /\ b >= (max_lap + 1) \div 3}
    IN  IF stint_curves = <<>> \/ typical_max < 6 \/ max_lap < 4 \/ over = {} THEN heuristic
        ELSE IF max_lap \in over /\ \A b \in over : b = max_lap THEN heuristic
        ELSE [onset |-> 2 + (CHOOSE b \in over : \A o \in over : b <= o), rate |-> 500]

\* Cliff onset and quadratic rate from the pooled curves of a compound;
\* linear_deg is deg_num / deg_den. The mean delta of a bin of n curves is
\* a multiple of 1/lcm(1 .. n), so a residual is held times res_den.
_detect_cliff(stint_curves, deg_num, deg_den, typical_max, compound_code) ==
    LET heuristic == heuristic_cliff(compound_code)
        max_lap == LET tops == {Len(stint_curves[c]) - 1 : c \in DOMAIN stint_curves}
                   IN  CHOOSE t \in tops : \A u \in tops : u <= t
        res_den == deg_den * LcmUpTo(Len(stint_curves))
        in_bin(b) == {c \in DOMAIN stint_curves : Len(stint_curves[c]) > b}
        bin_sum(b) == SumSeq([c \in DOMAIN stint_curves |->
                                IF c \in in_bin(b) THEN stint_curves[c][b + 1] ELSE 0])
        \* mean_deltas - linear_deg * bins_arr, times res_den
        residual(b) == bin_sum(b) * (res_den \div Cardinality(in_bin(b)))
                       - deg_num * b * (res_den \div deg_den)
        n_bins == max_lap + 1
        over == {b \in 0 .. max_lap : residual(b) > 15 * res_den /\ b >= n_bins \div 3}
        cliff_onset == CHOOSE b \in over : \A o \in over : b <= o
        n_post == max_lap - cliff_onset + 1
        post(i) == residual(cliff_onset + i)
        \* coeffs[0] of np.polyfit(post_bins, post_residuals, 2) as num / den:
        \* with two points the least-norm solution (r1 - r0) / 2, else the
        \* least-squares curvature over post_bins = 0 .. n_post - 1
        num == IF n_post = 2 THEN post(1) - post(0)
               ELSE SumSeq([j \in 1 .. n_post |->
                              (3 * (2 * (j - 1) - n_post + 1) * (2 * (j - 1) - n_post + 1)
                               - (n_post * n_post - 1)) * post(j - 1)])
        den == IF n_post = 2 THEN 2 * res_den
               ELSE res_den * ((n_post * (n_post * n_post - 1) * (n_post * n_post - 4)) \div 15)
        \* max(float(coeffs[0]), 0.005), rounded to 5 places
        cliff_rate == IF num < den - num THEN 500 ELSE RoundScaled(num, den, 3)
    IN  IF stint_curves = <<>> \/ typical_max < 6 THEN heuristic
        ELSE IF max_lap < 4 THEN heuristic
        ELSE IF n_bins < 4 THEN heuristic
        ELSE IF over = {} THEN heuristic
        ELSE IF n_post < 2 THEN [onset |-> cliff_onset + 2, rate |-> heuristic.rate]
        ELSE [onset |-> cliff_onset + 2, rate |-> cliff_rate]

\* results[code] of compute_degradation before base_pace_offset is set,
\* for a code with at least one slope.
fit_code(stints_df, code) ==
    LET kept == usable_stints(stints_df, code)
        slopes == [k \in DOMAIN kept |-> clamped_slope(deltas_of(kept[k]))]
        max_laps_list == [k \in DOMAIN kept |-> Len(kept[k].lap_times)]
        reference_times == [k \in DOMAIN kept |-> stint_clean(kept[k])[1]]
        all_curves == [k \in DOMAIN kept |-> deltas_of(kept[k])]
        deg_num == SumSeq(slopes)
        deg_den == SlopeDen * Len(slopes)
        typical_max == Percentile4(max_laps_list, 75) \div 4
        cliff == _detect_cliff(all_curves, deg_num, deg_den, typical_max, code)
    IN  [avg_deg_s_per_lap |-> RoundDiv(100 * deg_num, deg_den),
         cliff_onset_lap |-> cliff.onset,
         cliff_rate_s_per_lap2 |-> cliff.rate,
         typical_max_stint_laps |-> typical_max,
         avg_reference_lap_s |-> 100 * RoundDiv(10 * SumSeq(reference_times), Len(kept))]

\* The codes that get an entry from the data: those with a usable stint.
codes_with_data(stints_df) ==
    {code \in {stints_df[k].compound_code : k \in DOMAIN stints_df} :
        usable_stints(stints_df, code) # <<>>}

\* A slip of compute_degradation: only the codes met in the data are
\* returned.
compute_degradation_without_fill(stints_df) ==
    LET found == codes_with_data(stints_df)
        softest_code == CHOOSE c \in found : \A o \in found : CodeNum(o) <= CodeNum(c)
        softest_ref == fit_code(stints_df, softest_code).avg_reference_lap_s
    IN  IF stints_df = <<>> \/ found = {} THEN FALLBACK_COMPOUND_DATA
        ELSE [code \in found |->
                LET fit == fit_code(stints_df, code)
                IN  [f \in DOMAIN fit \cup {"base_pace_offset"} |->
                        IF f = "base_pace_offset"
                        THEN Max(fit.avg_reference_lap_s - softest_ref, 0) ELSE fit[f]]]

\* Per-compound degradation with cliff detection; the codes without data
\* are filled from the fallback table.
compute_degradation(stints_df) ==
    LET found == codes_with_data(stints_df)
        softest_code == CHOOSE c \in found : \A o \in found : CodeNum(o) <= CodeNum(c)
        softest_ref == fit_code(stints_df, softest_code).avg_reference_lap_s
    IN  IF stints_df = <<>> \/ found = {} THEN FALLBACK_COMPOUND_DATA
        ELSE [code \in found \cup DOMAIN FALLBACK_COMPOUND_DATA |->
                IF code \in found
                THEN LET fit == fit_code(stints_df, code)
                     IN  [f \in DOMAIN fit \cup {"base_pace_offset"} |->
                            IF f = "base_pace_offset"
                            THEN Max(fit.avg_reference_lap_s - softest_ref, 0) ELSE fit[f]]
                ELSE FALLBACK_COMPOUND_DATA[code]]

-----------------------------------------------------------------------------
(* Tables and entries as objects. FALLBACK_COMPOUND_DATA is tables[1], its *)
(* entries are objects[1] to objects[5]; a call that builds a dict appends *)
(* it, and a dict that a call changes is changed where it stands.          *)

CodeOrder == <<"C1", "C2", "C3", "C4", "C5">>

CodeIndex(code) == CHOOSE k \in DOMAIN CodeOrder : CodeOrder[k] = code

\* The table an identity table stands for.
TableValue(objs, table) == [code \in DOMAIN table |-> objs[table[code]]]

\* The entries of a table of values as new objects after objs, and the
\* table of their identities.
Allocate(objs, value) ==
    LET codes == SelectSeq(CodeOrder, LAMBDA code : code \in DOMAIN value)
    IN  [objects |-> objs \o [k \in DOMAIN codes |-> value[codes[k]]],
         table |-> [code \in DOMAIN value |->
                        Len(objs) + (CHOOSE k \in DOMAIN codes : codes[k] = code)]]

\* compute_degradation on the heap: dict(FALLBACK_COMPOUND_DATA) is a new
\* table of the fallback entries themselves; otherwise every entry is a
\* new dict, the ones filled in being dict(fallback).
heap_compute_degradation(objs, tabs, stints_df) ==
    IF stints_df = <<>> \/ codes_with_data(stints_df) = {}
    THEN [objects |-> objs, tables |-> Append(tabs, tabs[1])]
    ELSE LET new == Allocate(objs, compute_degradation(stints_df))
         IN  [objects |-> new.objects, tables |-> Append(tabs, new.table)]

\* A slip of apply_temp_adjustment: the entries of the table handed in are
\* updated where they stand and that table is returned.
heap_apply_temp_adjustment_in_place(objs, tabs, t, temp) ==
    LET value == apply_temp_adjustment(TableValue(objs, tabs[t]), temp)
    IN  [objects |-> [i \in DOMAIN objs |->
                        IF \E code \in DOMAIN tabs[t] : tabs[t][code] = i
                        THEN value[CHOOSE code \in DOMAIN tabs[t] : tabs[t][code] = i]
                        ELSE objs[i]],
         tables |-> Append(tabs, tabs[t])]

\* apply_temp_adjustment on the heap: adjusted = {} is a new table and each
\* {**data, ...} a new entry.
heap_apply_temp_adjustment(objs, tabs, t, temp) ==
    LET new == Allocate(objs, apply_temp_adjustment(TableValue(objs, tabs[t]), temp))
    IN  [objects |-> new.objects, tables |-> Append(tabs, new.table)]

\* The module as imported: the fallback table and its five entries.
FallbackObjects == [k \in DOMAIN CodeOrder |-> FALLBACK_COMPOUND_DATA[CodeOrder[k]]]
FallbackTable   == [code \in DOMAIN FALLBACK_COMPOUND_DATA |-> CodeIndex(code)]

-----------------------------------------------------------------------------
(* Specification of compute_degradation                                    *)

MaxStints == 3
MaxTables == 4

\* Lap times of a stint, from lap_in_stint 1: two laps only (discarded),
\* three laps, a stint that gets faster, a steady rise, a cliff over the
\* last three laps, a cliff on the last lap, and a rise that levels off.
StintShapes ==
    { <<9000, 9010>>,
      <<9050, 9000, 9012>>,
      <<9100, 9080, 9070, 9060, 9050, 9040>>,
      <<9020, 9000, 9005, 9010, 9015, 9020, 9025>>,
      <<9030, 9000, 9004, 9008, 9012, 9040, 9090, 9160>>,
      <<9030, 9000, 9002, 9004, 9006, 9008, 9010, 9100>>,
      <<9030, 9000, 9002, 9040, 9070, 9090, 9100, 9104>> }

StintCodes == {"C2", "C4"}

Stints == [compound_code : StintCodes, lap_times : StintShapes]

DegInit ==
    /\ pc = "ready"
    /\ \E n \in 0 .. MaxStints : loaded_stints \in [1 .. n -> Stints]
    /\ objects = FallbackObjects
    /\ tables = <<FallbackTable>>
    /\ StintIdle /\ SimIdle /\ HistIdle /\ TempIdle /\ ScoreIdle /\ CircuitIdle /\ CacheIdle

CallComputeDegradation ==
    /\ Len(tables) < MaxTables
    /\ \E r \in {heap_compute_degradation(objects, tables, loaded_stints)} :
          objects' = r.objects /\ tables' = r.tables
    /\ pc' = "compute_degradation"
    /\ UNCHANGED <<loaded_stints, stint_vars, sim_vars, hist_vars, temp_vars, score_vars, circuit_vars, cache_vars>>

DegNext == CallComputeDegradation

SpecDeg == DegInit /\ [][DegNext]_vars

\* The table returned by the last call.
Returned_table == TableValue(objects, tables[Len(tables)])


\* The codes with a usable historical stint: one of at least three laps,
\* two of them after the first.
CodesWithUsableStint ==
    {loaded_stints[k].compound_code :
        k \in {j \in DOMAIN loaded_stints : Len(loaded_stints[j].lap_times) >= 3}}

(* C18: compute_degradation always returns a table with every code of the  *)
(* static fallback table (C1 to C5); a code with no usable historical      *)
(* stint gets exactly the fallback entry of that code, and when no code    *)
(* has usable data (empty input, or every stint discarded) the result is   *)
(* the fallback table unmodified.                                          *)
C18_FallbackFill ==
    pc = "compute_degradation" =>
        /\ DOMAIN FALLBACK_COMPOUND_DATA \subseteq DOMAIN Returned_table
        /\ \A code \in DOMAIN FALLBACK_COMPOUND_DATA \ CodesWithUsableStint :
              Returned_table[code] = FALLBACK_COMPOUND_DATA[code]
        /\ CodesWithUsableStint = {} => Returned_table = FALLBACK_COMPOUND_DATA

\* C2 has data; the only C4 stint is discarded and C4 is filled in, like
\* the codes that were never run.
C18_Witness ==
    /\ pc = "compute_degradation"
    /\ CodesWithUsableStint = {"C2"}
    /\ \E k \in DOMAIN loaded_stints : loaded_stints[k].compound_code = "C4"
    /\ Returned_table["C2"] # FALLBACK_COMPOUND_DATA["C2"]
    /\ Returned_table["C4"] = FALLBACK_COMPOUND_DATA["C4"]
    /\ Returned_table["C5"] = FALLBACK_COMPOUND_DATA["C5"]

\* The softest code (highest number) among those with a usable stint.
SoftestWithData ==
    CHOOSE c \in CodesWithUsableStint : \A o \in CodesWithUsableStint : CodeNum(o) <= CodeNum(c)

(* C19: every entry of the table compute_degradation returns, whatever the *)
(* stints (stints that get faster included), has avg_deg_s_per_lap >= 0,   *)
(* cliff_onset_lap > 0, cliff_rate_s_per_lap2 >= 0.005,                    *)
(* typical_max_stint_laps > 0 and base_pace_offset >= 0, and               *)
(* base_pace_offset is 0 for the softest code that has historical data.    *)
C19_EntriesInRange ==
    pc = "compute_degradation" =>
        /\ \A code \in DOMAIN Returned_table :
              /\ Returned_table[code].avg_deg_s_per_lap >= 0
              /\ Returned_table[code].cliff_onset_lap > 0
              /\ Returned_table[code].cliff_rate_s_per_lap2 >= 500
              /\ Returned_table[code].typical_max_stint_laps > 0
              /\ Returned_table[code].base_pace_offset >= 0
        /\ CodesWithUsableStint # {} => Returned_table[SoftestWithData].base_pace_offset = 0

\* C2 was run on a stint that got faster: its rate is clamped to 0, and it
\* is slower than C4, whose fitted curvature is clamped to 0.005.
C19_Witness ==
    /\ pc = "compute_degradation"
    /\ CodesWithUsableStint = {"C2", "C4"}
    /\ \E k \in DOMAIN loaded_stints :
          /\ loaded_stints[k].compound_code = "C2"
          /\ loaded_stints[k].lap_times[Len(loaded_stints[k].lap_times)]
                < loaded_stints[k].lap_times[2]
    /\ Returned_table["C2"].avg_deg_s_per_lap = 0
    /\ Returned_table["C2"].base_pace_offset > 0
    /\ Returned_table["C4"].base_pace_offset = 0
    /\ Returned_table["C4"].cliff_rate_s_per_lap2 = 500
    /\ Returned_table["C4"].cliff_onset_lap < 8

\* The kept curves of a code in the stints loaded, the number of lap bins
\* they fill (bins 0 .. PooledBins - 1), the curves that reach bin b and
\* the sum of their deltas there.
CurvesOf(code) ==
    [k \in DOMAIN usable_stints(loaded_stints, code) |->
        deltas_of(usable_stints(loaded_stints, code)[k])]

PooledBins(code) ==
    CHOOSE n \in {Len(CurvesOf(code)[k]) : k \in DOMAIN CurvesOf(code)} :
        \A k \in DOMAIN CurvesOf(code) : Len(CurvesOf(code)[k]) <= n

Reaching(code, b) == {k \in DOMAIN CurvesOf(code) : Len(CurvesOf(code)[k]) > b}

DeltaSum(code, b) ==
    SumSeq([k \in DOMAIN CurvesOf(code) |->
              IF k \in Reaching(code, b) THEN CurvesOf(code)[k][b + 1] ELSE 0])

\* The bins from the 1/3 point on whose mean delta lies more than 0.15 s
\* over the linear model, the mean of the clamped slopes times the bin.
BinsOverLinear(code) ==
    LET curves == CurvesOf(code)
        slope_sum == SumSeq([k \in DOMAIN curves |-> clamped_slope(curves[k])])
        slope_den == SlopeDen * Len(curves)
    IN  {b \in 0 .. PooledBins(code) - 1 :
            /\ 3 * b >= PooledBins(code) - (PooledBins(code) % 3)
            /\ slope_den * DeltaSum(code, b)
                  > Cardinality(Reaching(code, b)) * (15 * slope_den + slope_sum * b)}

FirstBinOver(code) == CHOOSE b \in BinsOverLinear(code) : \A o \in BinsOverLinear(code) : b <= o

\* The cases of the heuristic: fewer than 4 bins, a typical max stint under
\* 6 laps, or no bin over the linear model from the 1/3 point on.
HeuristicCase(code) ==
    \/ PooledBins(code) < 4
    \/ Returned_table[code].typical_max_stint_laps < 6
    \/ BinsOverLinear(code) = {}

\* An onset bin is found and no quadratic can be fitted: the onset bin is
\* the last bin.
FitImpossible(code) == ~HeuristicCase(code) /\ FirstBinOver(code) = PooledBins(code) - 1

HeuristicPair(code) ==
    /\ Returned_table[code].cliff_onset_lap = Max(8, 40 - 6 * CodeNum(code))
    /\ Returned_table[code].cliff_rate_s_per_lap2 = 500 + 600 * CodeNum(code)

(* C26 as stated: when an onset bin is found and the quadratic fit cannot  *)
(* be performed, and when there are fewer than 4 bins, the typical max     *)
(* stint is under 6 laps or no bin from the 1/3 point on has a residual    *)
(* over 0.15, the cliff of the code is the heuristic pair,                 *)
(* onset = max(8, 40 - 6 code_num) and rate = 0.005 + 0.006 code_num.      *)
C26_Original ==
    pc = "compute_degradation" =>
        \A code \in CodesWithUsableStint :
            (HeuristicCase(code) \/ FitImpossible(code)) => HeuristicPair(code)

(* C26: with fewer than 4 bins, a typical max stint under 6 laps or no bin *)
(* from the 1/3 point on with a residual over 0.15, _detect_cliff returns  *)
(* the heuristic pair, onset = max(8, 40 - 6 code_num) and                 *)
(* rate = 0.005 + 0.006 code_num; when an onset bin is found and the       *)
(* quadratic cannot be fitted, it returns the heuristic rate with the      *)
(* onset found plus 2, not the heuristic onset; a table is returned in     *)
(* every case.                                                             *)
C26_HeuristicFallback ==
    pc = "compute_degradation" =>
        \A code \in CodesWithUsableStint :
            /\ HeuristicCase(code) => HeuristicPair(code)
            /\ FitImpossible(code) =>
                  /\ Returned_table[code].cliff_onset_lap = FirstBinOver(code) + 2
                  /\ Returned_table[code].cliff_rate_s_per_lap2 = 500 + 600 * CodeNum(code)
            /\ code \in DOMAIN Returned_table

\* C2 ran one stint whose last lap alone is over the linear model: onset 8
\* (bin 6 plus 2) with the heuristic rate of C2, and not the heuristic
\* onset 28; C4 ran a short stint and has the heuristic pair.
C26_Witness ==
    /\ pc = "compute_degradation"
    /\ CodesWithUsableStint = {"C2", "C4"}
    /\ FitImpossible("C2")
    /\ Returned_table["C2"].cliff_onset_lap = 8
    /\ Returned_table["C2"].cliff_rate_s_per_lap2 = 1700
    /\ HeuristicCase("C4")
    /\ Returned_table["C4"].cliff_onset_lap = 16

-----------------------------------------------------------------------------
(* Specification of the tables: any sequence of compute_degradation and    *)
(* apply_temp_adjustment calls on the tables made so far.                  *)

\* Track temperatures of the requests: with them the arithmetic of the
\* model gives, for every table made by up to three calls, the table the
\* floating-point arithmetic of the source gives.
TableTemps == {24, 39}

\* The stints of a request: none, a discarded one only, a three-lap stint,
\* and two compounds with a falling and a cliff stint.
TableInputs ==
    { <<>>,
      << [compound_code |-> "C2", lap_times |-> <<9000, 9010>>] >>,
      << [compound_code |-> "C4", lap_times |-> <<9050, 9000, 9012>>] >>,
      << [compound_code |-> "C2", lap_times |-> <<9100, 9080, 9070, 9060, 9050, 9040>>],
         [compound_code |-> "C4",
          lap_times |-> <<9030, 9000, 9004, 9008, 9012, 9040, 9090, 9160>>] >> }

TablesInit ==
    /\ pc = "ready"
    /\ loaded_stints \in TableInputs
    /\ objects = FallbackObjects
    /\ tables = <<FallbackTable>>
    /\ StintIdle /\ SimIdle /\ HistIdle /\ TempIdle /\ ScoreIdle /\ CircuitIdle /\ CacheIdle

CallApplyTempAdjustmentOnTable ==
    /\ Len(tables) < MaxTables
    /\ \E t \in DOMAIN tables :
         \E temp \in TableTemps :
            LET r == heap_apply_temp_adjustment(objects, tables, t, temp)
            IN  objects' = r.objects /\ tables' = r.tables
    /\ pc' = "apply_temp_adjustment"
    /\ UNCHANGED <<loaded_stints, stint_vars, sim_vars, hist_vars, temp_vars, score_vars, circuit_vars, cache_vars>>

TablesNext == CallComputeDegradation \/ CallApplyTempAdjustmentOnTable

SpecTables == TablesInit /\ [][TablesNext]_vars

\* A call leaves every table and every entry that existed before it as it
\* was; apply_temp_adjustment returns a table that did not exist, made of
\* entries that did not exist, each with onset and stint length of 5 laps
\* or more.
C20_Call ==
    /\ \A i \in DOMAIN objects : i \in DOMAIN objects' /\ objects'[i] = objects[i]
    /\ \A t \in DOMAIN tables : t \in DOMAIN tables' /\ tables'[t] = tables[t]
    /\ pc' = "apply_temp_adjustment" =>
          /\ Len(tables') = Len(tables) + 1
          /\ \A code \in DOMAIN tables'[Len(tables')] :
                /\ tables'[Len(tables')][code] > Len(objects)
                /\ objects'[tables'[Len(tables')][code]].cliff_onset_lap >= 5
                /\ objects'[tables'[Len(tables')][code]].typical_max_stint_laps >= 5

(* C20: apply_temp_adjustment returns a new table and leaves its input     *)
(* table and every per-code entry in it unchanged; no sequence of          *)
(* compute_degradation and apply_temp_adjustment calls modifies the static *)
(* fallback table; in the returned table every code has                    *)
(* cliff_onset_lap >= 5 and typical_max_stint_laps >= 5.                   *)
C20_NewTableInputUnchanged ==
    /\ [][C20_Call]_vars
    /\ [](TableValue(objects, tables[1]) = FALLBACK_COMPOUND_DATA)

\* The table compute_degradation made of the fallback entries themselves
\* has been adjusted, and the result adjusted again: the last table has a
\* stint length held at 5, and the fallback entries are what they were.
C20_Witness ==
    /\ pc = "apply_temp_adjustment"
    /\ Len(tables) = 4
    /\ tables[2] = tables[1]
    /\ Len(objects) = 15
    /\ \E code \in DOMAIN tables[4] : objects[tables[4][code]].typical_max_stint_laps = 5
    /\ \A code \in DOMAIN tables[4] :
          objects[tables[4][code]].avg_deg_s_per_lap # objects[tables[1][code]].avg_deg_s_per_lap
    /\ TableValue(objects, tables[1]) = FALLBACK_COMPOUND_DATA

-----------------------------------------------------------------------------
(* Historical alignment scorer: utils/historical_scoring.py                *)
(* Adjustments are in ticks; the statistics of a profile are in tenths (of *)
(* a lap, of a percent), as the analyser rounds them. A note is a tuple    *)
(* of its parts, the empty note the empty tuple.                           *)

FIRST_STOP_OUTSIDE_IQR_PENALTY_PER_LAP == 15000
FIRST_STOP_MAX_PENALTY_S               == 200000
SEQUENCE_MATCH_BONUS_S                 == 150000
\* 0.4, in tenths
SEQUENCE_PARTIAL_MATCH_FACTOR          == 4
STOP_COUNT_ALIGNMENT_BONUS_S           == 50000
\* 1.0, in tenths
HISTORICAL_WEIGHT_MASTER               == 10

\* str.upper() on the compound names of the model.
Upper(name) ==
    CASE name = "medium" -> "MEDIUM" [] name = "Medium" -> "MEDIUM"
      [] name = "hard" -> "HARD" [] name = "Hard" -> "HARD"
      [] name = "soft" -> "SOFT" [] OTHER -> name

\* The number of elements of a sequence that are x once upper-cased.
CountUpper(seq, x) == Cardinality({i \in DOMAIN seq : Upper(seq[i]) = x})

\* Exact sequence match (case-insensitive).
_sequences_match(strat_seq, hist_seq) ==
    IF Len(strat_seq) # Len(hist_seq) THEN FALSE
    ELSE \A i \in DOMAIN strat_seq : Upper(strat_seq[i]) = Upper(hist_seq[i])

\* Same compounds, any order: the sorted upper-cased lists are equal.
_sequences_partial_match(strat_seq, hist_seq) ==
    IF Len(strat_seq) # Len(hist_seq) THEN FALSE
    ELSE \A x \in {Upper(strat_seq[i]) : i \in DOMAIN strat_seq}
                  \cup {Upper(hist_seq[i]) : i \in DOMAIN hist_seq} :
            CountUpper(strat_seq, x) = CountUpper(hist_seq, x)

\* A slip of _score_first_stop: the penalty grows with the distance
\* without limit.
_score_first_stop_without_cap(actual_lap, first_stop) ==
    LET p25 == first_stop.p25
        p75 == first_stop.p75
        actual10 == 10 * actual_lap
        distance == Max(Max(p25 - actual10, actual10 - p75), 0)
        penalty == (distance * FIRST_STOP_OUTSIDE_IQR_PENALTY_PER_LAP) \div 10
    IN  IF p25 <= actual10 /\ actual10 <= p75
        THEN [adj |-> 0, note |-> <<"First stop within historical window", actual_lap>>]
        ELSE [adj |-> penalty,
              note |-> <<"First stop outside historical IQR", actual_lap, distance, penalty>>]

\* Penalty if the first stop is outside the historical IQR.
_score_first_stop(actual_lap, first_stop) ==
    LET p25 == first_stop.p25
        p75 == first_stop.p75
        actual10 == 10 * actual_lap
        distance == Max(Max(p25 - actual10, actual10 - p75), 0)
        penalty == Min((distance * FIRST_STOP_OUTSIDE_IQR_PENALTY_PER_LAP) \div 10,
                       FIRST_STOP_MAX_PENALTY_S)
    IN  IF p25 <= actual10 /\ actual10 <= p75
        THEN [adj |-> 0, note |-> <<"First stop within historical window", actual_lap>>]
        ELSE [adj |-> penalty,
              note |-> <<"First stop outside historical IQR", actual_lap, distance, penalty>>]

\* for seq_info in sequences: the loop from the k-th sequence on.
RECURSIVE seq_match_loop(_, _, _)
seq_match_loop(k, strat_roles, sequences) ==
    IF k > Len(sequences) THEN [adj |-> 0, note |-> <<>>]
    ELSE LET hist_seq == sequences[k].sequence
             freq == sequences[k].frequency_pct
         IN  IF _sequences_match(strat_roles, hist_seq)
             THEN [adj |-> -((SEQUENCE_MATCH_BONUS_S * freq) \div 1000),
                   note |-> <<"Matches historical sequence", hist_seq, freq>>]
             ELSE IF _sequences_partial_match(strat_roles, hist_seq)
             THEN [adj |-> -((SEQUENCE_MATCH_BONUS_S * SEQUENCE_PARTIAL_MATCH_FACTOR * freq)
                             \div 10000),
                   note |-> <<"Partially matches historical", hist_seq, freq>>]
             ELSE seq_match_loop(k + 1, strat_roles, sequences)

\* A slip of _score_sequence_match: every matching sequence adds its bonus.
RECURSIVE seq_match_sum(_, _, _)
seq_match_sum(k, strat_roles, sequences) ==
    IF k > Len(sequences) THEN 0
    ELSE LET hist_seq == sequences[k].sequence
             freq == sequences[k].frequency_pct
             rest == seq_match_sum(k + 1, strat_roles, sequences)
         IN  IF _sequences_match(strat_roles, hist_seq)
             THEN rest - (SEQUENCE_MATCH_BONUS_S * freq) \div 1000
             ELSE IF _sequences_partial_match(strat_roles, hist_seq)
             THEN rest - (SEQUENCE_MATCH_BONUS_S * SEQUENCE_PARTIAL_MATCH_FACTOR * freq)
                         \div 10000
             ELSE rest

_score_sequence_match_double_counting(strat_compounds, sequences, to_role) ==
    LET strat_roles ==
            IF to_role # <<>>
            THEN [i \in DOMAIN strat_compounds |->
                    IF strat_compounds[i] \in DOMAIN to_role
                    THEN to_role[strat_compounds[i]] ELSE strat_compounds[i]]
            ELSE strat_compounds
    IN  [adj |-> seq_match_sum(1, strat_roles, sequences), note |-> <<>>]

\* Bonus for matching a historically common sequence. to_role is the
\* mapping compound_to_role, the empty tuple when it is None or empty.
_score_sequence_match(strat_compounds, sequences, to_role) ==
    LET strat_roles ==
            IF to_role # <<>>
            THEN [i \in DOMAIN strat_compounds |->
                    IF strat_compounds[i] \in DOMAIN to_role
                    THEN to_role[strat_compounds[i]] ELSE strat_compounds[i]]
            ELSE strat_compounds
    IN  seq_match_loop(1, strat_roles, sequences)

\* Bonus if the stop count matches the dominant historical pattern.
_score_stop_count(stops, stop_dist) ==
    LET one == stop_dist.one_stop_pct
        two == stop_dist.two_stop_pct
        dominant == IF two > one THEN 2 ELSE 1
        dominant_pct == IF dominant = 1 THEN one ELSE two
    IN  IF stops = dominant /\ dominant_pct > 400
        THEN [adj |-> -((STOP_COUNT_ALIGNMENT_BONUS_S * dominant_pct) \div 1000),
              note |-> <<"matches dominant historical pattern", stops, dominant_pct>>]
        ELSE [adj |-> 0, note |-> <<>>]

\* A value the source tests with "if x": neither None nor empty.
Truthy(x) == x # None /\ x # <<>>

\* One pass of the body of the loop of apply_historical_alignment, up to
\* the master weight: the rounded adjustment and the notes of a strategy.
alignment_of(strat, prof, to_role) ==
    LET first_stop == prof.first_stop_lap
        stop_dist == prof.stop_count_distribution
        sequences == prof.common_strategy_sequences
        s1 == IF Truthy(first_stop) /\ strat.stops >= 1 /\ strat.pit_stop_laps # <<>>
              THEN _score_first_stop(strat.pit_stop_laps[1], first_stop)
              ELSE [adj |-> 0, note |-> <<>>]
        s2 == IF sequences # <<>>
              THEN _score_sequence_match([i \in DOMAIN strat.stints |-> strat.stints[i].compound],
                                         sequences, to_role)
              ELSE [adj |-> 0, note |-> <<>>]
        s3 == IF Truthy(stop_dist)
              THEN _score_stop_count(strat.stops, stop_dist)
              ELSE [adj |-> 0, note |-> <<>>]
        adjustment == s1.adj + s2.adj + s3.adj
    IN  [final_adj |-> Round3((adjustment * HISTORICAL_WEIGHT_MASTER) \div 10),
         notes |-> SelectSeq(<<s1.note, s2.note, s3.note>>, LAMBDA n : n # <<>>)]

\* for strat in strategies: the loop from the k-th object on. The objects
\* are updated in place. An object of class StrategyResult has no field
\* historical_adjustment_s, so that assigning it raises ValueError, after
\* total_time_s has been assigned.
RECURSIVE alignment_loop(_, _, _, _)
alignment_loop(k, objs, prof, to_role) ==
    IF k > Len(objs) THEN [objs |-> objs, raised |-> FALSE]
    ELSE LET a == alignment_of(objs[k], prof, to_role)
             line83 == [objs[k] EXCEPT !.total_time_s = @ + a.final_adj]
         IN  IF "historical_adjustment_s" \notin DOMAIN objs[k]
             THEN [objs |-> [objs EXCEPT ![k] = line83], raised |-> TRUE]
             ELSE alignment_loop(k + 1,
                                 [objs EXCEPT ![k] = [line83 EXCEPT
                                                        !.historical_adjustment_s = a.final_adj,
                                                        !.historical_notes = a.notes]],
                                 prof, to_role)

\* The objects of the list after the call, and whether the call raised.
\* The list returned is the list it was given.
apply_historical_alignment(objs, prof, to_role) ==
    IF HISTORICAL_WEIGHT_MASTER = 0 THEN [objs |-> objs, raised |-> FALSE]
    ELSE alignment_loop(1, objs, prof, to_role)

-----------------------------------------------------------------------------
(* Specification of the scorer                                             *)

\* StrategyResult objects as _build_strategy makes them, over 20 laps.
ScoreCandidates ==
    LET t == TableThree.params
    IN  { _build_strategy(<<"1-Stop", "C3", "C2">>, <<"C3", "C2">>, <<8, 12>>,
                          9000000, 2200000, t, ""),
          _build_strategy(<<"1-Stop", "C2", "C3">>, <<"C2", "C3">>, <<12, 8>>,
                          9000000, 2200000, t, ""),
          _build_strategy(<<"1-Stop", "C4", "C2">>, <<"C4", "C2">>, <<3, 17>>,
                          9000000, 2200000, t, ""),
          _build_strategy(<<"2-Stop", "C4", "C3", "C2">>, <<"C4", "C3", "C2">>, <<5, 7, 8>>,
                          9000000, 2200000, t, ""),
          _build_strategy(<<"No-Stop", "C2">>, <<"C2">>, <<20>>,
                          9000000, 2200000, t, "") }

\* The same object with the two fields the scorer populates.
WithHistoricalFields(strat) ==
    [f \in (DOMAIN strat) \cup {"historical_adjustment_s", "historical_notes"} |->
        IF f = "historical_adjustment_s" THEN 0
        ELSE IF f = "historical_notes" THEN <<>>
        ELSE strat[f]]

SeqInfo(sequence, frequency_pct, n) ==
    [sequence |-> sequence, stops |-> Len(sequence) - 1, n |-> n,
     frequency_pct |-> frequency_pct]

FirstStopSet ==
    {None, [median |-> 85, p25 |-> 70, p75 |-> 100, iqr |-> 30, n |-> 8],
     [median |-> 350, p25 |-> 300, p75 |-> 400, iqr |-> 100, n |-> 8]}
StopDistSet ==
    {None,
     [one_stop_pct |-> 750, two_stop_pct |-> 250, three_plus_pct |-> 0, n |-> 8],
     [one_stop_pct |-> 300, two_stop_pct |-> 600, three_plus_pct |-> 100, n |-> 10],
     [one_stop_pct |-> 400, two_stop_pct |-> 400, three_plus_pct |-> 200, n |-> 10],
     [one_stop_pct |-> 1000, two_stop_pct |-> 0, three_plus_pct |-> 0, n |-> 8]}
SequencesSet ==
    { <<>>,
      <<SeqInfo(<<"MEDIUM", "HARD">>, 1000, 8)>>,
      <<SeqInfo(<<"MEDIUM", "HARD">>, 750, 6), SeqInfo(<<"HARD", "MEDIUM">>, 250, 2)>>,
      <<SeqInfo(<<"HARD", "MEDIUM">>, 500, 4), SeqInfo(<<"MEDIUM", "HARD">>, 500, 4)>>,
      <<SeqInfo(<<"SOFT", "MEDIUM", "HARD">>, 600, 6), SeqInfo(<<"MEDIUM", "HARD">>, 300, 3),
        SeqInfo(<<"HARD", "MEDIUM">>, 100, 1)>> }
ToRoleSet ==
    { <<>>,
      [c \in {"C2", "C3", "C4"} |->
          IF c = "C2" THEN "HARD" ELSE IF c = "C3" THEN "MEDIUM" ELSE "SOFT"],
      [c \in {"C2", "C3"} |-> IF c = "C2" THEN "Hard" ELSE "medium"] }

ScoreInit ==
    /\ pc = "ready"
    /\ \E a \in ScoreCandidates, b \in ScoreCandidates, len \in 1 .. 2, ext \in BOOLEAN :
          LET plain == IF len = 1 THEN <<a>> ELSE <<a, b>>
          IN  score_strats = IF ext THEN [i \in DOMAIN plain |-> WithHistoricalFields(plain[i])]
                                    ELSE plain
    /\ \E fs \in FirstStopSet, sd \in StopDistSet, sq \in SequencesSet :
          profile = [first_stop_lap |-> fs, stop_count_distribution |-> sd,
                     common_strategy_sequences |-> sq]
    /\ compound_to_role \in ToRoleSet
    /\ score_out = <<>>
    /\ StintIdle /\ SimIdle /\ HistIdle /\ TempIdle /\ DegIdle /\ CircuitIdle /\ CacheIdle

CallScoreSequenceMatch ==
    /\ pc = "ready"
    /\ \E i \in DOMAIN score_strats :
          LET strat_compounds == [j \in DOMAIN score_strats[i].stints |->
                                     score_strats[i].stints[j].compound]
              r == _score_sequence_match(strat_compounds, profile.common_strategy_sequences,
                                         compound_to_role)
          IN  score_out' = [strat_compounds |-> strat_compounds, adj |-> r.adj,
                            note |-> r.note]
    /\ pc' = "score_sequence_match"
    /\ UNCHANGED <<score_strats, profile, compound_to_role, stint_vars, sim_vars, hist_vars, temp_vars, deg_vars, circuit_vars, cache_vars>>

CallApplyHistoricalAlignment ==
    /\ pc = "ready"
    /\ LET r == apply_historical_alignment(score_strats, profile, compound_to_role)
       IN  /\ score_strats' = r.objs
           /\ score_out' = IF r.raised THEN [raised |-> "ValueError"]
                           ELSE [raised |-> "", strategies |-> [i \in DOMAIN score_strats |-> i]]
    /\ pc' = "historical_alignment"
    /\ UNCHANGED <<profile, compound_to_role, stint_vars, sim_vars, hist_vars, temp_vars, deg_vars, circuit_vars, cache_vars>>

ScoreNext == CallScoreSequenceMatch \/ CallApplyHistoricalAlignment

SpecScore == ScoreInit /\ [][ScoreNext]_vars

\* The candidate of the call made, as roles.
CandidateRoles ==
    [i \in DOMAIN score_out.strat_compounds |->
        IF compound_to_role # <<>> /\ score_out.strat_compounds[i] \in DOMAIN compound_to_role
        THEN compound_to_role[score_out.strat_compounds[i]]
        ELSE score_out.strat_compounds[i]]

\* a is b reordered, letter case apart.
SameMultiset(a, b) ==
    /\ Len(a) = Len(b)
    /\ \E f \in [DOMAIN a -> DOMAIN a] :
          /\ \A i, j \in DOMAIN a : f[i] = f[j] => i = j
          /\ \A i \in DOMAIN a : Upper(a[i]) = Upper(b[f[i]])

\* a is b in the same order, letter case apart.
SameOrder(a, b) ==
    /\ Len(a) = Len(b)
    /\ \A i \in DOMAIN a : Upper(a[i]) = Upper(b[i])

(* C11: _score_sequence_match returns at the first historical sequence,    *)
(* in list order, that the candidate matches: -1.5 x frequency_pct/100 for *)
(* an exact ordered case-insensitive match, 0.4 times that for a same-     *)
(* multiset match in another order, nothing added by later sequences, and  *)
(* 0 when no sequence matches; [MEDIUM,HARD] against a first sequence      *)
(* [MEDIUM,HARD] at 75.0% gives -1.125 s.                                  *)
C11_FirstMatchWins ==
    (pc = "score_sequence_match") =>
        LET seqs == profile.common_strategy_sequences
            hits == {k \in DOMAIN seqs : SameMultiset(CandidateRoles, seqs[k].sequence)}
            first == CHOOSE k \in hits : \A h \in hits : k <= h
        IN  /\ hits = {} => score_out.adj = 0 /\ score_out.note = <<>>
            /\ hits # {} =>
                  score_out.adj =
                      IF SameOrder(CandidateRoles, seqs[first].sequence)
                      THEN -(150 * seqs[first].frequency_pct)
                      ELSE -(60 * seqs[first].frequency_pct)
            /\ (/\ seqs # <<>>
                /\ seqs[1].sequence = <<"MEDIUM", "HARD">>
                /\ seqs[1].frequency_pct = 750
                /\ SameOrder(CandidateRoles, <<"MEDIUM", "HARD">>)) => score_out.adj = -112500

\* A candidate that is the first sequence reordered and the second one
\* exactly: the partial bonus of the first is returned, 0.4 x 1.125 s.
C11_Witness ==
    /\ pc = "score_sequence_match"
    /\ Len(profile.common_strategy_sequences) = 2
    /\ ~SameOrder(CandidateRoles, profile.common_strategy_sequences[1].sequence)
    /\ SameMultiset(CandidateRoles, profile.common_strategy_sequences[1].sequence)
    /\ SameOrder(CandidateRoles, profile.common_strategy_sequences[2].sequence)
    /\ score_out.strat_compounds # CandidateRoles
    /\ score_out.adj = -45000

(* C12 as stated: apply_historical_alignment does not modify the           *)
(* StrategyResult objects it is given: across the call every object of the *)
(* caller's list keeps its total_time_s.                                   *)
C12_InputsUnmodified ==
    [][(pc' = "historical_alignment") =>
          \A i \in DOMAIN score_strats :
              score_strats'[i].total_time_s = score_strats[i].total_time_s]_vars

\* The parts of the adjustment of a strategy under the profile of the
\* state: a strategy that takes no part in a check has a part of 0.
FirstStopPart(strat) ==
    IF Truthy(profile.first_stop_lap) /\ strat.stops >= 1 /\ strat.pit_stop_laps # <<>>
    THEN _score_first_stop(strat.pit_stop_laps[1], profile.first_stop_lap).adj
    ELSE 0

SequencePart(strat) ==
    _score_sequence_match([i \in DOMAIN strat.stints |-> strat.stints[i].compound],
                          profile.common_strategy_sequences, compound_to_role).adj

StopCountPart(strat) ==
    IF Truthy(profile.stop_count_distribution)
    THEN _score_stop_count(strat.stops, profile.stop_count_distribution).adj
    ELSE 0

\* A call of apply_historical_alignment: every total_time_s moves by at
\* most 2 s; when the call returns, each strategy's historical_adjustment_s
\* lies in [-2.0, +2.0] s, is the rounded sum of a first-stop penalty in
\* [0, 2.0], a sequence bonus in [-1.5, 0] and a stop-count bonus in
\* [-0.5, 0], and is what was added to total_time_s.
C29_Call ==
    pc' = "historical_alignment" =>
        /\ \A i \in DOMAIN score_strats :
              /\ score_strats'[i].total_time_s - score_strats[i].total_time_s <= 200000
              /\ score_strats'[i].total_time_s - score_strats[i].total_time_s >= -200000
        /\ score_out'.raised = "" =>
              \A i \in DOMAIN score_strats :
                  /\ score_strats'[i].historical_adjustment_s \in -200000 .. 200000
                  /\ score_strats'[i].total_time_s =
                        score_strats[i].total_time_s + score_strats'[i].historical_adjustment_s
                  /\ FirstStopPart(score_strats[i]) \in 0 .. 200000
                  /\ SequencePart(score_strats[i]) \in -150000 .. 0
                  /\ StopCountPart(score_strats[i]) \in -50000 .. 0
                  /\ score_strats'[i].historical_adjustment_s =
                        Round3(FirstStopPart(score_strats[i]) + SequencePart(score_strats[i])
                               + StopCountPart(score_strats[i]))

C29_LowerEnd ==
    /\ pc = "historical_alignment"
    /\ score_out.raised = ""
    /\ \E i \in DOMAIN score_strats : score_strats[i].historical_adjustment_s = -200000

-----------------------------------------------------------------------------
(* Disk cache: utils/cache.py, and get_degradation: routers/degradation.py *)
(* A cache file is held as whether it exists and its text, the chunks that *)
(* json.dump writes: an opening brace, one chunk for each key and a        *)
(* closing brace. A track temperature that is None is NaN.                 *)

HISTORICAL_YEARS == <<2023, 2024, 2025>>

\* The keys of the dict get_degradation caches, in insertion order.
EntryKeys == <<"compounds", "data_source", "years_used">>

\* json.dump(data, f, indent=2) of a dict with these keys.
json_dump(data, keys) ==
    <<[tok |-> "{"]>>
    \o [k \in DOMAIN keys |-> [tok |-> "pair", key |-> keys[k], value |-> data[keys[k]]]]
    \o <<[tok |-> "}"]>>

\* json.load(f): the dict of a complete text, JSONDecodeError for an empty
\* or unfinished one.
json_load(text) ==
    IF Len(text) >= 2 /\ text[1].tok = "{" /\ text[Len(text)].tok = "}"
    THEN [raised |-> "",
          value |-> [key \in {text[k].key : k \in 2 .. Len(text) - 1} |->
                        text[CHOOSE k \in 2 .. Len(text) - 1 : text[k].key = key].value]]
    ELSE [raised |-> "JSONDecodeError"]

\* read_cache without another thread at work. expired is whether
\* ttl_seconds is given and the file is older than that.
read_cache(file, expired) ==
    IF ~file.exists THEN [raised |-> "", value |-> None]
    ELSE IF expired THEN [raised |-> "", value |-> None]
    ELSE json_load(file.text)

\* The file after write_cache without another thread at work.
write_cache(data) == [exists |-> TRUE, text |-> json_dump(data, EntryKeys)]

\* Lines 84-86: the cache is not read under force_refresh.
cache_lookup(file, force_refresh) ==
    IF force_refresh THEN [raised |-> "", value |-> None] ELSE read_cache(file, FALSE)

\* Lines 88-93: the table of a cache hit, made of new entries by json.load.
from_cache(objs, tabs, cached) ==
    LET new == Allocate(objs, cached.compounds)
    IN  [objects |-> new.objects, tables |-> Append(tabs, new.table),
         data_source |-> Get(cached, "data_source", "historical"),
         years_used |-> Get(cached, "years_used", HISTORICAL_YEARS),
         notes |-> << <<"Loaded from cache">> >>]

\* Lines 103-107: the table compute_degradation returned, as the last table
\* of the heap r.
computed_table(r, loaded) ==
    [objects |-> r.objects, tables |-> r.tables,
     data_source |-> "historical", years_used |-> loaded.years,
     notes |-> << <<"Computed from", Len(loaded.stints_df), "stints">> >>]

\* Lines 79-81 and 95-110: dict(FALLBACK_COMPOUND_DATA), kept when FastF1
\* throws or yields an empty frame, else the table of compute_degradation.
\* loaded is what load_stints_for_circuit does: it raises, or returns the
\* stints with the years they are of.
fastf1_extraction(objs, tabs, loaded) ==
    IF loaded.raises
    THEN [objects |-> objs, tables |-> Append(tabs, tabs[1]),
          data_source |-> "fallback", years_used |-> <<>>,
          notes |-> << <<"FastF1 error. Using fallback.">> >>]
    ELSE IF loaded.stints_df = <<>>
    THEN [objects |-> objs, tables |-> Append(tabs, tabs[1]),
          data_source |-> "fallback", years_used |-> <<>>,
          notes |-> << <<"No historical data. Using generic fallback.">> >>]
    ELSE computed_table(heap_compute_degradation(objs, tabs, loaded.stints_df), loaded)

\* The table before the temperature adjustment, as the last table of the
\* heap: that of the cache hit, or that of the extraction.
unadjusted(objs, tabs, cached, loaded) ==
    IF cached # None THEN from_cache(objs, tabs, cached)
    ELSE fastf1_extraction(objs, tabs, loaded)

\* Lines 112-116: the dict handed to write_cache.
cache_entry(d) ==
    [compounds |-> TableValue(d.objects, d.tables[Len(d.tables)]),
     data_source |-> d.data_source, years_used |-> d.years_used]

\* The file after the cache lookup and the extraction: written on a miss.
file_after(d, file, cached) == IF cached # None THEN file ELSE write_cache(cache_entry(d))

\* d with the heap r, whose last table is the adjusted one, and the note.
adjusted_table(d, r, track_temp) ==
    [objects |-> r.objects, tables |-> r.tables,
     data_source |-> d.data_source, years_used |-> d.years_used,
     notes |-> Append(d.notes, <<"Temp-adjusted to", track_temp>>)]

\* Lines 118-121.
temperature_adjustment(d, track_temp) ==
    IF track_temp = NaN THEN d
    ELSE adjusted_table(d, heap_apply_temp_adjustment(d.objects, d.tables, Len(d.tables),
                                                      track_temp),
                        track_temp)

\* Lines 123-135: the DegradationResponse over the last table of d.
DegradationResponse(d, file, track_temp) ==
    [objects |-> d.objects, tables |-> d.tables, cache_file |-> file,
     response |-> [raised |-> "", years_used |-> d.years_used, track_temp_c |-> track_temp,
                   data_source |-> d.data_source,
                   compounds |-> TableValue(d.objects, d.tables[Len(d.tables)]),
                   notes |-> Append(d.notes, <<"Model: linear + quadratic cliff.">>)]]

\* A slip of lines 112-121: the cache is written after the temperature
\* adjustment, with the table of the response.
after_extraction_caching_adjusted(d, file, cached, track_temp) ==
    DegradationResponse(temperature_adjustment(d, track_temp),
                        file_after(temperature_adjustment(d, track_temp), file, cached),
                        track_temp)

\* Lines 112-135, d being the table of lines 88-110.
after_extraction(d, file, cached, track_temp) ==
    DegradationResponse(temperature_adjustment(d, track_temp), file_after(d, file, cached),
                        track_temp)

\* Lines 88-135, lookup being what read_cache did: an exception of
\* read_cache is not caught.
after_lookup(objs, tabs, file, lookup, track_temp, loaded) ==
    IF lookup.raised # ""
    THEN [objects |-> objs, tables |-> tabs, cache_file |-> file,
          response |-> [raised |-> lookup.raised]]
    ELSE after_extraction(unadjusted(objs, tabs, lookup.value, loaded), file, lookup.value,
                          track_temp)

\* get_degradation for the circuit of the cache file: the heap, the file
\* and the response after the request.
get_degradation(objs, tabs, file, track_temp, force_refresh, loaded) ==
    after_lookup(objs, tabs, file, cache_lookup(file, force_refresh), track_temp, loaded)

-----------------------------------------------------------------------------
(* Specification of get_degradation: requests for one circuit, one after   *)
(* the other.                                                              *)

MaxRequests == 3

\* What load_stints_for_circuit does for a request: it throws, it returns
\* an empty frame, or the stints of one or of three seasons.
LoadOutcomes ==
    { [raises |-> TRUE, stints_df |-> <<>>, years |-> <<>>],
      [raises |-> FALSE, stints_df |-> <<>>, years |-> <<>>],
      [raises |-> FALSE, years |-> <<2024>>,
       stints_df |-> << [compound_code |-> "C4", lap_times |-> <<9050, 9000, 9012>>] >>],
      [raises |-> FALSE, years |-> HISTORICAL_YEARS,
       stints_df |-> << [compound_code |-> "C2",
                         lap_times |-> <<9100, 9080, 9070, 9060, 9050, 9040>>],
                        [compound_code |-> "C4",
                         lap_times |-> <<9030, 9000, 9004, 9008, 9012, 9040, 9090, 9160>>] >>] }

\* The track_temp of a request: none, or a track temperature.
TrackTemps == {NaN} \cup TableTemps

CacheInit ==
    /\ pc = "ready"
    /\ loaded_stints = <<>>
    /\ objects = FallbackObjects
    /\ tables = <<FallbackTable>>
    /\ cache_file = [exists |-> FALSE]
    /\ deg_requests = <<>>
    /\ deg_response = <<>>
    /\ cache_pc = <<>> /\ read_out = <<>> /\ write_data = <<>>
    /\ StintIdle /\ SimIdle /\ HistIdle /\ TempIdle /\ ScoreIdle /\ CircuitIdle

CallGetDegradation ==
    /\ Len(deg_requests) < MaxRequests
    /\ \E track_temp \in TrackTemps, force_refresh \in BOOLEAN, loaded \in LoadOutcomes :
          \E r \in {get_degradation(objects, tables, cache_file, track_temp, force_refresh,
                                    loaded)} :
              /\ objects' = r.objects
              /\ tables' = r.tables
              /\ cache_file' = r.cache_file
              /\ deg_response' = r.response
              /\ deg_requests' = Append(deg_requests, [track_temp |-> track_temp,
                                                       force_refresh |-> force_refresh])
    /\ pc' = "get_degradation"
    /\ UNCHANGED <<loaded_stints, cache_pc, read_out, write_data>>
    /\ UNCHANGED <<stint_vars, sim_vars, hist_vars, temp_vars, score_vars, circuit_vars>>

CacheNext == CallGetDegradation

SpecCache == CacheInit /\ [][CacheNext]_vars

\* The tables get_degradation can have before the temperature adjustment:
\* the fallback table and those compute_degradation makes of the stints.
UnadjustedTables ==
    {FALLBACK_COMPOUND_DATA}
    \cup {compute_degradation(o.stints_df) : o \in {l \in LoadOutcomes : l.stints_df # <<>>}}

(* C27: after any sequence of get_degradation requests on one circuit,     *)
(* whatever their track_temp and force_refresh, the cache entry holds an   *)
(* un-adjusted compound table; a response with a track_temp is that table  *)
(* adjusted once for that temperature and a response without one is that   *)
(* table: the temperature of an earlier request has no part in it.         *)
C27_CacheHoldsUnadjusted ==
    pc = "get_degradation" =>
        /\ deg_response.raised = ""
        /\ cache_file.exists
        /\ json_load(cache_file.text).raised = ""
        /\ json_load(cache_file.text).value.compounds \in UnadjustedTables
        /\ deg_response.compounds =
              IF deg_requests[Len(deg_requests)].track_temp = NaN
              THEN json_load(cache_file.text).value.compounds
              ELSE apply_temp_adjustment(json_load(cache_file.text).value.compounds,
                                         deg_requests[Len(deg_requests)].track_temp)
        /\ TableValue(objects, tables[1]) = FALLBACK_COMPOUND_DATA

\* A request at 39 degrees computes the table and caches it; a request at
\* 24 degrees is served from the cache and one without a temperature gets
\* the cached table as it is.
C27_Witness ==
    /\ pc = "get_degradation"
    /\ Len(deg_requests) = 3
    /\ deg_requests[1].track_temp = 39
    /\ deg_requests[2].track_temp = 24 /\ ~deg_requests[2].force_refresh
    /\ deg_requests[3].track_temp = NaN /\ ~deg_requests[3].force_refresh
    /\ deg_response.notes[1] = <<"Loaded from cache">>
    /\ deg_response.data_source = "historical"
    /\ deg_response.compounds = json_load(cache_file.text).value.compounds
    /\ deg_response.compounds # FALLBACK_COMPOUND_DATA

-----------------------------------------------------------------------------
(* Specification of a read_cache and a write_cache of the same file in two *)
(* threads. read_cache tests exists(), then opens and loads the file;      *)
(* write_cache opens the file for writing, which empties it, and the text  *)
(* reaches the file when the buffer is flushed, at the latest on close.    *)

\* The dicts that are cached: the fallback table, and computed tables.
CacheEntries ==
    {[compounds |-> t, data_source |-> IF t = FALLBACK_COMPOUND_DATA THEN "fallback"
                                       ELSE "historical",
      years_used |-> IF t = FALLBACK_COMPOUND_DATA THEN <<>> ELSE HISTORICAL_YEARS] :
        t \in UnadjustedTables}

RaceInit ==
    /\ pc = "ready"
    /\ cache_file \in {[exists |-> FALSE]} \cup {write_cache(e) : e \in CacheEntries}
    /\ write_data \in CacheEntries
    /\ cache_pc = [reader |-> "read_cache", writer |-> "write_cache"]
    /\ read_out = <<>>
    /\ deg_requests = <<>> /\ deg_response = <<>>
    /\ StintIdle /\ SimIdle /\ HistIdle /\ TempIdle /\ ScoreIdle /\ DegIdle /\ CircuitIdle

\* Lines 47-50 of read_cache: filepath.exists() and the age of the file.
ReadExists ==
    /\ cache_pc.reader = "read_cache"
    /\ \E expired \in BOOLEAN :
          IF ~cache_file.exists \/ expired
          THEN /\ read_out' = read_cache(cache_file, expired)
               /\ cache_pc' = [cache_pc EXCEPT !.reader = "returned"]
          ELSE /\ read_out' = read_out
               /\ cache_pc' = [cache_pc EXCEPT !.reader = "open"]
    /\ pc' = "read_cache"
    /\ UNCHANGED <<cache_file, write_data, deg_requests, deg_response>>
    /\ UNCHANGED <<stint_vars, sim_vars, hist_vars, temp_vars, score_vars, deg_vars, circuit_vars>>

\* Lines 51-52 of read_cache: open and json.load of the text as it is now.
ReadLoad ==
    /\ cache_pc.reader = "open"
    /\ read_out' = json_load(cache_file.text)
    /\ cache_pc' = [cache_pc EXCEPT !.reader = "returned"]
    /\ pc' = "read_cache"
    /\ UNCHANGED <<cache_file, write_data, deg_requests, deg_response>>
    /\ UNCHANGED <<stint_vars, sim_vars, hist_vars, temp_vars, score_vars, deg_vars, circuit_vars>>

\* Line 61 of write_cache: open(filepath, "w") creates or empties the file.
WriteOpen ==
    /\ cache_pc.writer = "write_cache"
    /\ cache_file' = [exists |-> TRUE, text |-> <<>>]
    /\ cache_pc' = [cache_pc EXCEPT !.writer = "writing"]
    /\ pc' = "write_cache"
    /\ UNCHANGED <<read_out, write_data, deg_requests, deg_response>>
    /\ UNCHANGED <<stint_vars, sim_vars, hist_vars, temp_vars, score_vars, deg_vars, circuit_vars>>

\* Line 62 of write_cache: a full buffer is flushed, more of the text is in
\* the file.
WriteFlush ==
    /\ cache_pc.writer = "writing"
    /\ \E n \in Len(cache_file.text) + 1 .. Len(write_cache(write_data).text) - 1 :
          cache_file' = [exists |-> TRUE, text |-> SubSeq(write_cache(write_data).text, 1, n)]
    /\ pc' = "write_cache"
    /\ UNCHANGED <<cache_pc, read_out, write_data, deg_requests, deg_response>>
    /\ UNCHANGED <<stint_vars, sim_vars, hist_vars, temp_vars, score_vars, deg_vars, circuit_vars>>

\* The end of the with block of write_cache: the file is closed, the whole
\* text is in it.
WriteClose ==
    /\ cache_pc.writer = "writing"
    /\ cache_file' = write_cache(write_data)
    /\ cache_pc' = [cache_pc EXCEPT !.writer = "returned"]
    /\ pc' = "write_cache"
    /\ UNCHANGED <<read_out, write_data, deg_requests, deg_response>>
    /\ UNCHANGED <<stint_vars, sim_vars, hist_vars, temp_vars, score_vars, deg_vars, circuit_vars>>

RaceNext == ReadExists \/ ReadLoad \/ WriteOpen \/ WriteFlush \/ WriteClose

SpecCacheRace == RaceInit /\ [][RaceNext]_vars

(* C30: when a read_cache and a write_cache of the same subdir and key run *)
(* concurrently, the read returns a miss, the complete entry stored before *)
(* or the complete entry newly written; it never observes an empty or      *)
(* partially written file.                                                 *)
C30_ReadSeesCompleteEntry ==
    cache_pc.reader = "returned" =>
        /\ read_out.raised = ""
        /\ read_out.value \in {None} \cup CacheEntries

=============================================================================
